---------------------------- MODULE Spec2Model ----------------------------
(***************************************************************************)
(* Nudgy mascot generators: the animation export (generate_nudgy_lottie_v1 *)
(* .py), the vector export (generate_nudgy_svg.py) and the raster icon     *)
(* export (generate_app_icon_v2.py, generate_app_icon.py).                 *)
(*                                                                         *)
(* Lengths are fixed-point integers: one pixel is Unit model units, so a   *)
(* tolerance of 1e-3 px is one model unit.  Fractions of the reference     *)
(* size are given in thousandths.  Frame numbers and percentages are plain *)
(* integers.                                                               *)
(***************************************************************************)
EXTENDS Integers, Sequences, FiniteSets, TLC

VARIABLES
    pc,                     \* position of each program: lottie, sway
    t,                      \* lottie: loop variable t of the current sway loop
    direction,              \* lottie: loop variable direction
    keyframes,              \* lottie: keyframe list under construction
    transform,              \* lottie: local transform of the running builder
    sway_transform,         \* lottie: generate_lottie's sway_transform
    built,                  \* lottie: layer objects by name (the heap)
    layers,                 \* lottie: generate_lottie's list `layers`
    i,                      \* lottie: index of the current for-loop
    lottie,                 \* lottie: the document returned by generate_lottie
    axis,                   \* sway_keyframes: argument axis
    amplitude,              \* sway_keyframes: argument amplitude
    frames_per_half_cycle,  \* sway_keyframes: argument frames_per_half_cycle
    sw_t,                   \* sway_keyframes: local t
    sw_direction,           \* sway_keyframes: local direction
    sw_keyframes,           \* sway_keyframes: local keyframes
    sw_result,              \* sway_keyframes: returned list
    call,                   \* a function called on its own: name, arguments, result
    em_pc,                  \* embed_images: position in the script
    em_name,                \* embed_images: index of the animation of the outer loop
    em_asset,               \* embed_images: index of the asset of the inner loop
    data,                   \* embed_images: the assets of the loaded document
    extracted,              \* embed_images: extracted/<name>.json on disk, its assets
    archive,                \* embed_images: <name>.lottie, the image names it holds
    printed,                \* embed_images: the lines printed so far
    jobs,                   \* exports run side by side: position and value of each
    svg,                    \* svg: the document returned by generate_svg
    files,                  \* the output files written so far
    script,                 \* icon: which icon generator runs ("v2" or "v1")
    vi,                     \* icon: index of the variant being generated
    ctx,                    \* icon: the drawing context's graphics state
    surface,                \* icon: the paint operations applied so far
    step,                   \* icon: index inside the running draw sequence
    icons                   \* icon: the finished image of each variant

lottieVars == <<t, direction, keyframes, transform, sway_transform, built,
                layers, i, lottie>>
swayVars == <<axis, amplitude, frames_per_half_cycle, sw_t, sw_direction,
              sw_keyframes, sw_result>>
iconVars == <<script, vi, ctx, surface, step, icons>>
\* the functions that the programs' main paths do not call
embedVars == <<em_pc, em_name, em_asset, data, extracted, archive, printed>>
calleeVars == <<swayVars, call, embedVars, jobs>>
vars == <<pc, lottieVars, calleeVars, svg, files, iconVars>>

----------------------------------------------------------------------------
(* Canvas and timing, generate_nudgy_lottie_v1.py lines 25-35 *)

Unit == 1000
W == 400
H == 460
FPS == 30
DURATION_SECONDS == 7
TOTAL_FRAMES == FPS * DURATION_SECONDS
PSIZE == 340
CX == (W * Unit) \div 2
CY == (H * Unit) \div 2 + 10 * Unit

\* p(fraction): a fraction of the reference size, fraction in thousandths
p(fraction) == (fraction * PSIZE * Unit) \div 1000

----------------------------------------------------------------------------
(* Keyframes.  e is the easing the keyframe carries: "smooth" for the      *)
(* (0.42,1)/(0.58,0) handles, "fast" for (0.33,1)/(0.67,0), "hold" for a   *)
(* keyframe written without handles.                                       *)

Kf(time, val, ease) == [t |-> time, s |-> val, e |-> ease]

Static(val) == [a |-> 0, k |-> val]
Animated(kfs) == [a |-> 1, k |-> kfs]

default_transform ==
    [o |-> Static(100),
     r |-> Static(0),
     p |-> Static(<<(W * Unit) \div 2, (H * Unit) \div 2, 0>>),
     a |-> Static(<<(W * Unit) \div 2, (H * Unit) \div 2, 0>>),
     s |-> Static(<<100, 100, 100>>)]

NoInd == 0 - 1

\* make_shape_layer(name, shapes, transform); a caller that passes no
\* transform gets default_transform() (line 234)
make_shape_layer(name, shapes, tr) ==
    [ty |-> 4, nm |-> name, ks |-> tr, shapes |-> shapes,
     ip |-> 0, op |-> TOTAL_FRAMES, st |-> 0, ind |-> NoInd]

head_tilt_deg == 3

\* transform = default_transform(); transform["r"] = {"a": 0, "k": 3}
tilted_transform == [default_transform EXCEPT !.r = Static(head_tilt_deg)]

----------------------------------------------------------------------------
(* build_eye_layer: the blink scale track, lines 567-594 *)

blink_frame_1 == 100
blink_frame_2 == 195
blink_closed == 15

eye_scale_keyframes_no_hold ==
    <<Kf(0, <<100, 100, 100>>, "fast"),
      Kf(blink_frame_1 - 2, <<100, 100, 100>>, "fast"),
      Kf(blink_frame_1, <<100, blink_closed, 100>>, "fast"),
      Kf(blink_frame_1 + 4, <<100, 100, 100>>, "fast"),
      Kf(blink_frame_2 - 2, <<100, 100, 100>>, "fast"),
      Kf(blink_frame_2, <<100, blink_closed, 100>>, "fast"),
      Kf(blink_frame_2 + 4, <<100, 100, 100>>, "fast"),
      Kf(TOTAL_FRAMES, <<100, 100, 100>>, "hold")>>

eye_scale_keyframes_slow ==
    <<Kf(0, <<100, 100, 100>>, "fast"),
      Kf(blink_frame_1 - 2, <<100, 100, 100>>, "fast"),
      Kf(blink_frame_1, <<100, blink_closed, 100>>, "fast"),
      Kf(blink_frame_1 + 1, <<100, blink_closed, 100>>, "fast"),
      Kf(blink_frame_1 + 6, <<100, 100, 100>>, "fast"),
      Kf(blink_frame_2 - 2, <<100, 100, 100>>, "fast"),
      Kf(blink_frame_2, <<100, blink_closed, 100>>, "fast"),
      Kf(blink_frame_2 + 1, <<100, blink_closed, 100>>, "fast"),
      Kf(blink_frame_2 + 6, <<100, 100, 100>>, "fast"),
      Kf(TOTAL_FRAMES, <<100, 100, 100>>, "hold")>>

eye_scale_keyframes ==
    <<Kf(0, <<100, 100, 100>>, "fast"),
      Kf(blink_frame_1 - 2, <<100, 100, 100>>, "fast"),
      Kf(blink_frame_1, <<100, blink_closed, 100>>, "fast"),
      Kf(blink_frame_1 + 1, <<100, blink_closed, 100>>, "fast"),
      Kf(blink_frame_1 + 4, <<100, 100, 100>>, "fast"),
      Kf(blink_frame_2 - 2, <<100, 100, 100>>, "fast"),
      Kf(blink_frame_2, <<100, blink_closed, 100>>, "fast"),
      Kf(blink_frame_2 + 1, <<100, blink_closed, 100>>, "fast"),
      Kf(blink_frame_2 + 4, <<100, 100, 100>>, "fast"),
      Kf(TOTAL_FRAMES, <<100, 100, 100>>, "hold")>>

----------------------------------------------------------------------------
(* The layer builders, lines 396-641.  shapes lists the layer's groups.    *)

build_feet_layer ==
    make_shape_layer("Feet", <<"Left Foot", "Right Foot">>, default_transform)

build_body_layer == make_shape_layer("Body", <<"Body">>, default_transform)

build_belly_layer == make_shape_layer("Belly", <<"Belly">>, default_transform)

build_wing_layer(side, name) ==
    make_shape_layer(name, <<name>>, default_transform)

build_scarf_layer == make_shape_layer("Scarf", <<"Scarf">>, default_transform)

build_head_layer == make_shape_layer("Head", <<"Head">>, tilted_transform)

build_face_patch_layer ==
    make_shape_layer("Face Patch", <<"Face Patch">>, tilted_transform)

\* lines 523-529: an eye's centre and the radius of its pupil
eye_geometry(side) ==
    LET head_cy == CY - p(220)
        base_r == p(42)
    IN  [ex |-> CX + side * p(95),
         eye_y |-> head_cy + p(10),
         er |-> (base_r * (IF side = 1 THEN 1050 ELSE 1000)) \div 1000]

build_eye_layer(side, name) ==
    make_shape_layer(name, <<"Eye White", "Pupil", "Shine 1", "Shine 2">>,
        [tilted_transform EXCEPT !.s = Animated(eye_scale_keyframes)])

build_beak_layer == make_shape_layer("Beak", <<"Beak">>, tilted_transform)

build_blush_layer ==
    make_shape_layer("Blush", <<"Left Blush", "Right Blush">>, tilted_transform)

\* generate_lottie lines 734-745: the builders in call order
BuildCalls ==
    <<build_feet_layer, build_body_layer, build_belly_layer,
      build_wing_layer(-1, "Left Wing"), build_wing_layer(1, "Right Wing"),
      build_scarf_layer, build_head_layer, build_face_patch_layer,
      build_eye_layer(-1, "Left Eye"), build_eye_layer(1, "Right Eye"),
      build_beak_layer, build_blush_layer>>

\* generate_lottie line 753: front-most first
LayerList ==
    <<"Blush", "Beak", "Right Eye", "Left Eye", "Face Patch", "Head", "Scarf",
      "Right Wing", "Left Wing", "Belly", "Body", "Feet">>

----------------------------------------------------------------------------
(* build_body_sway_layer, lines 644-693 *)

body_sway_amp == 2 * Unit
body_half_cycle == 45
body_rot_amp == (8 * Unit) \div 10

body_pos_kf(time, dir) ==
    Kf(time, <<(W * Unit) \div 2 + body_sway_amp * dir, (H * Unit) \div 2, 0>>,
       "smooth")

body_pos_closing ==
    Kf(TOTAL_FRAMES, <<(W * Unit) \div 2 + body_sway_amp, (H * Unit) \div 2, 0>>,
       "hold")

body_rot_kf(time, dir) == Kf(time, <<body_rot_amp * dir>>, "smooth")

body_rot_closing == Kf(TOTAL_FRAMES, <<body_rot_amp>>, "hold")

----------------------------------------------------------------------------
(* build_scarf_counter_sway, lines 696-722 *)

scarf_half_cycle == 45
phase_offset_none == 8 - 8
phase_offset == 8
scarf_sway_amp == (15 * Unit) \div 10
scarf_start_direction == 0 - 1

scarf_kf(time, dir) ==
    Kf(time, <<(W * Unit) \div 2 + scarf_sway_amp * dir, (H * Unit) \div 2, 0>>,
       "smooth")

scarf_closing == Kf(TOTAL_FRAMES, <<(W * Unit) \div 2, (H * Unit) \div 2, 0>>, "hold")

----------------------------------------------------------------------------
(* generate_lottie: the sway injected into every static position,          *)
(* lines 762-786                                                           *)

half_cycle_whole == TOTAL_FRAMES \div 6
half_cycle_short == 45 - 15
half_cycle == 45
sway_amp == 2 * Unit

sway_kf(static_val, time, dir) ==
    Kf(time, <<static_val[1] + sway_amp * dir, static_val[2], static_val[3]>>,
       "smooth")

sway_closing(static_val) ==
    Kf(TOTAL_FRAMES, <<static_val[1] + sway_amp, static_val[2], static_val[3]>>,
       "hold")

is_static_never(base_pos) == base_pos.a = 0 /\ base_pos.a = 1

\* if base_pos.get("a") == 0  (line 765)
is_static(base_pos) == base_pos.a = 0

NoDoc == [v |-> "none", layers |-> <<>>]

----------------------------------------------------------------------------
(* The program generate_nudgy_lottie_v1.main: generate_lottie() step by    *)
(* step; one step per loop iteration and per builder call.                 *)

AtL(label) == pc.lottie = label
GotoL(label) == pc' = [pc EXCEPT !.lottie = label]

\* line 728 -> build_body_sway_layer lines 650-658
BodySwayEnter ==
    /\ AtL("start")
    /\ t' = 0 /\ direction' = 1 /\ keyframes' = <<>>
    /\ GotoL("body_pos")
    /\ UNCHANGED <<transform, sway_transform, built, layers, i, lottie, calleeVars, svg, files, iconVars>>

\* lines 659-673
BodySwayPos ==
    /\ AtL("body_pos")
    /\ IF t <= TOTAL_FRAMES
       THEN /\ keyframes' = Append(keyframes, body_pos_kf(t, direction))
            /\ t' = t + body_half_cycle
            /\ direction' = direction * (0 - 1)
            /\ UNCHANGED <<pc, transform>>
       ELSE /\ transform' = [default_transform EXCEPT
                  !.p = Animated(Append(keyframes, body_pos_closing))]
            /\ t' = 0 /\ direction' = 1 /\ keyframes' = <<>>
            /\ GotoL("body_rot")
    /\ UNCHANGED <<sway_transform, built, layers, i, lottie, calleeVars, svg, files, iconVars>>

\* lines 679-693, and the assignment of line 728
BodySwayRot ==
    /\ AtL("body_rot")
    /\ IF t <= TOTAL_FRAMES
       THEN /\ keyframes' = Append(keyframes, body_rot_kf(t, direction))
            /\ t' = t + body_half_cycle
            /\ direction' = direction * (0 - 1)
            /\ UNCHANGED <<pc, sway_transform, i>>
       ELSE /\ sway_transform' = [transform EXCEPT
                  !.r = Animated(Append(keyframes, body_rot_closing))]
            /\ keyframes' = <<>>
            /\ i' = 1
            /\ UNCHANGED <<t, direction>>
            /\ GotoL("build")
    /\ UNCHANGED <<transform, built, layers, lottie, calleeVars, svg, files, iconVars>>

\* lines 734-745: one builder call per step
BuildLayer ==
    /\ AtL("build")
    /\ i <= Len(BuildCalls)
    /\ built' = (BuildCalls[i].nm :> BuildCalls[i]) @@ built
    /\ i' = i + 1
    /\ IF i = Len(BuildCalls) THEN GotoL("scarf") ELSE UNCHANGED pc
    /\ UNCHANGED <<t, direction, keyframes, transform, sway_transform, layers,
                   lottie, calleeVars, svg, files, iconVars>>

\* line 748 -> build_scarf_counter_sway lines 698-706
ScarfEnter ==
    /\ AtL("scarf")
    /\ t' = phase_offset /\ direction' = scarf_start_direction /\ keyframes' = <<>>
    /\ GotoL("scarf_loop")
    /\ UNCHANGED <<transform, sway_transform, built, layers, i, lottie, calleeVars, svg, files, iconVars>>

\* lines 707-722, the assignment of line 748, and line 753
ScarfLoop ==
    /\ AtL("scarf_loop")
    /\ IF t <= TOTAL_FRAMES
       THEN /\ keyframes' = Append(keyframes, scarf_kf(t, direction))
            /\ t' = t + scarf_half_cycle
            /\ direction' = direction * (0 - 1)
            /\ UNCHANGED <<pc, transform, built, layers, i>>
       ELSE /\ transform' = [default_transform EXCEPT
                  !.p = Animated(Append(keyframes, scarf_closing))]
            /\ built' = [built EXCEPT !["Scarf"].ks = transform']
            /\ layers' = LayerList
            /\ keyframes' = <<>>
            /\ i' = 1
            /\ UNCHANGED <<t, direction>>
            /\ GotoL("index")
    /\ UNCHANGED <<sway_transform, lottie, calleeVars, svg, files, iconVars>>

\* lines 756-757: layer["ind"] = i
AssignIndex ==
    /\ AtL("index")
    /\ i <= Len(layers)
    /\ built' = [built EXCEPT ![layers[i]].ind = i - 1]
    /\ IF i = Len(layers) THEN i' = 1 /\ GotoL("sway")
                          ELSE i' = i + 1 /\ UNCHANGED pc
    /\ UNCHANGED <<t, direction, keyframes, transform, sway_transform, layers,
                   lottie, calleeVars, svg, files, iconVars>>

\* lines 762-773: the head of the for loop over the layers
SwayLayer ==
    /\ AtL("sway")
    /\ IF i > Len(layers)
       THEN /\ lottie' = [v |-> "5.12.1", fr |-> FPS, ip |-> 0, op |-> TOTAL_FRAMES,
                          w |-> W, h |-> H, nm |-> "Nudgy Idle",
                          layers |-> [j \in 1..Len(layers) |-> built[layers[j]]]]
            /\ GotoL("done")
            /\ UNCHANGED <<t, direction, keyframes, i>>
       ELSE /\ IF is_static(built[layers[i]].ks.p)
               THEN /\ t' = 0 /\ direction' = 1 /\ keyframes' = <<>>
                    /\ GotoL("sway_loop")
                    /\ UNCHANGED i
               ELSE /\ i' = i + 1
                    /\ UNCHANGED <<pc, t, direction, keyframes>>
            /\ UNCHANGED lottie
    /\ UNCHANGED <<transform, sway_transform, built, layers, calleeVars, svg, files,
                   iconVars>>

\* lines 774-786: the while loop, the closing keyframe and the assignment
SwayLoop ==
    /\ AtL("sway_loop")
    /\ LET static_val == built[layers[i]].ks.p.k IN
       IF t <= TOTAL_FRAMES
       THEN /\ keyframes' = Append(keyframes, sway_kf(static_val, t, direction))
            /\ t' = t + half_cycle
            /\ direction' = direction * (0 - 1)
            /\ UNCHANGED <<pc, built, i>>
       ELSE /\ built' = [built EXCEPT ![layers[i]].ks.p =
                  Animated(Append(keyframes, sway_closing(static_val)))]
            /\ keyframes' = <<>>
            /\ i' = i + 1
            /\ UNCHANGED <<t, direction>>
            /\ GotoL("sway")
    /\ UNCHANGED <<transform, sway_transform, layers, lottie, calleeVars, svg, files, iconVars>>

LottieNext ==
    \/ BodySwayEnter \/ BodySwayPos \/ BodySwayRot \/ BuildLayer
    \/ ScarfEnter \/ ScarfLoop \/ AssignIndex \/ SwayLayer \/ SwayLoop

LottieInit ==
    /\ t = 0 /\ direction = 1 /\ keyframes = <<>>
    /\ transform = default_transform
    /\ sway_transform = default_transform
    /\ built = <<>>
    /\ layers = <<>>
    /\ i = 1
    /\ lottie = NoDoc

----------------------------------------------------------------------------
(* sway_keyframes(axis, amplitude, frames_per_half_cycle), lines 371-391   *)

MaxAmplitude == 2
MaxHalfCycle == 46

\* while t <= TOTAL_FRAMES  (line 377)
sway_continue_strict(time) == time < TOTAL_FRAMES

sway_continue(time) == time <= TOTAL_FRAMES

\* lines 378-384
sway_val(ax, amp, dir) == IF ax = "x" THEN <<amp * dir, 0>> ELSE <<0, amp * dir>>

\* line 390: the final keyframe
sway_final == Kf(TOTAL_FRAMES, <<0, 0>>, "hold")

SwayKeyframesStep ==
    /\ pc.sway = "loop"
    /\ IF sway_continue(sw_t)
       THEN /\ sw_keyframes' = Append(sw_keyframes,
                    Kf(sw_t, sway_val(axis, amplitude, sw_direction), "smooth"))
            /\ sw_t' = sw_t + frames_per_half_cycle
            /\ sw_direction' = sw_direction * (0 - 1)
            /\ UNCHANGED <<pc, sw_result>>
       ELSE /\ sw_result' = Append(sw_keyframes, sway_final)
            /\ pc' = [pc EXCEPT !.sway = "done"]
            /\ UNCHANGED <<sw_t, sw_direction, sw_keyframes>>
    /\ UNCHANGED <<axis, amplitude, frames_per_half_cycle, call, embedVars, jobs,
                   lottieVars, svg, files, iconVars>>

SwayIdle ==
    /\ axis = "x" /\ amplitude = 1 /\ frames_per_half_cycle = 1
    /\ sw_t = 0 /\ sw_direction = 1 /\ sw_keyframes = <<>> /\ sw_result = <<>>

----------------------------------------------------------------------------
(* generate_nudgy_svg.py *)

ART_W == 400
ART_H == 460
SVG_PSIZE == 340
SVG_CX == (ART_W * Unit) \div 2
SVG_CY == (ART_H * Unit) \div 2 + 10 * Unit

\* p(fraction) of generate_nudgy_svg.py, fraction in thousandths
svg_p(fraction) == (fraction * SVG_PSIZE * Unit) \div 1000

\* fmt(val): the value printed with two decimal places
fmt(val) == ((val * 100 + Unit \div 2) \div Unit) * (Unit \div 100)

NoTransform == [rotate |-> FALSE, angle |-> 0, cx |-> 0, cy |-> 0]

\* lines 299-300: transform="rotate(3, CX, head_cy)"
svg_head_tilt ==
    [rotate |-> TRUE, angle |-> 3, cx |-> fmt(SVG_CX),
     cy |-> fmt(SVG_CY - svg_p(220))]

Group(id, tr, children, fills) ==
    [id |-> id, transform |-> tr, children |-> children, fills |-> fills]

\* lines 302-350: the ids declared in <defs>
\* one gradient shared by both flippers, the shapes unchanged
svg_defs_shared_wing ==
    <<"bodyGrad", "bellyGrad", "headGrad", "wingGrad", "wingGrad",
      "scarfGrad", "beakGrad">>

svg_defs ==
    <<"bodyGrad", "bellyGrad", "headGrad", "wingGradL", "wingGradR",
      "scarfGrad", "beakGrad">>

\* lines 303-350: every <linearGradient> and <radialGradient> element of the
\* document with the element that holds it
svg_gradient_elements ==
    [n \in DOMAIN svg_defs |->
        [id |-> svg_defs[n],
         kind |-> IF svg_defs[n] = "headGrad" THEN "radialGradient"
                  ELSE "linearGradient",
         parent |-> "defs"]]

\* lines 361-417: the top-level groups in document order
svg_groups ==
    <<Group("feet", NoTransform, <<"left_foot", "right_foot">>,
            <<"#007AFF", "#007AFF">>),
      Group("body", NoTransform, <<>>, <<"url(#bodyGrad)">>),
      Group("belly", NoTransform, <<>>, <<"url(#bellyGrad)">>),
      Group("left_wing", NoTransform, <<>>, <<"url(#wingGradL)">>),
      Group("right_wing", NoTransform, <<>>, <<"url(#wingGradR)">>),
      Group("scarf", NoTransform, <<>>, <<"url(#scarfGrad)">>),
      Group("head", svg_head_tilt, <<>>, <<"url(#headGrad)">>),
      Group("face_patch", svg_head_tilt, <<>>, <<"#FFFFFF">>),
      Group("eyes", svg_head_tilt, <<"left_eye", "right_eye">>,
            <<"#FFFFFF", "#0A0A0E", "#FFFFFF", "#FFFFFF",
              "#FFFFFF", "#0A0A0E", "#FFFFFF", "#FFFFFF">>),
      Group("beak", svg_head_tilt, <<>>, <<"url(#beakGrad)">>),
      Group("blush", svg_head_tilt, <<"blush_left", "blush_right">>,
            <<"#FF6B8A", "#FF6B8A">>)>>

generate_svg ==
    [w |-> ART_W, h |-> ART_H, defs |-> svg_defs,
     gradients |-> svg_gradient_elements, groups |-> svg_groups]

NoSvg == [w |-> 0, h |-> 0, defs |-> <<>>, gradients |-> <<>>, groups |-> <<>>]

----------------------------------------------------------------------------
(* Output files: path -> the program that wrote it ("" while absent)       *)

LottiePath == "Nudge/Nudge/Resources/nudgy_idle.json"
SvgPath == "nudgy_for_rive.svg"
IconDir == "Nudge/Nudge/Assets.xcassets/AppIcon.appiconset/"
\* one file name for every variant
IconFile_shared(variant) == IconDir \o "icon.png"
IconFile(variant) == IconDir \o "icon-" \o variant \o ".png"
ContentsPath == IconDir \o "Contents.json"

Variants == <<"light", "dark", "tinted">>

Paths ==
    {LottiePath, SvgPath, ContentsPath} \cup {IconFile(Variants[k]) : k \in 1..3}

\* a file of the output tree: absent, or written by an export with a content
NoFile == [exists |-> FALSE, by |-> "", content |-> <<>>]
File(by, content) == [exists |-> TRUE, by |-> by, content |-> content]

\* generate_nudgy_svg.main, lines 424-433
SvgGenerate ==
    /\ pc.svg = "start"
    /\ svg' = generate_svg
    /\ pc' = [pc EXCEPT !.svg = "generated"]
    /\ UNCHANGED <<files, lottieVars, calleeVars, iconVars>>

SvgWrite ==
    /\ pc.svg = "generated"
    /\ files' = [files EXCEPT ![SvgPath] = File("vector", svg)]
    /\ pc' = [pc EXCEPT !.svg = "written"]
    /\ UNCHANGED <<svg, lottieVars, calleeVars, iconVars>>

SvgNext == SvgGenerate \/ SvgWrite

\* generate_nudgy_lottie_v1.main, lines 807-820
LottieWrite ==
    /\ AtL("done")
    /\ files' = [files EXCEPT ![LottiePath] = File("animation", lottie)]
    /\ GotoL("written")
    /\ UNCHANGED <<svg, lottieVars, calleeVars, iconVars>>

----------------------------------------------------------------------------
(* generate_app_icon_v2.py: the drawing context.                           *)
(*                                                                         *)
(* A source is a paint: kind "solid", "linear" or "radial", its colour     *)
(* (solid) or gradient name, and the set of alpha values it carries, in    *)
(* thousandths.  The graphics state is the source, the transformation      *)
(* (the list of translate/rotate calls in force), the current path and the *)
(* save stack; save() and restore() push and pop source and transformation.*)
(* by names the pass that issues the calls (background, shadow, part), so  *)
(* that each paint in the log carries its origin.                          *)

RENDER_SIZE == 4096
OUTPUT_SIZE == 1024
icon_S == RENDER_SIZE \div 1024

\* s(val): scale a value
icon_s(val) == val * icon_S

Opaque == 1000

Solid(rgb, alpha) == [kind |-> "solid", name |-> "", rgb |-> rgb, alphas |-> {alpha}]
Gradient(kind, name, alphas) ==
    [kind |-> kind, name |-> name, rgb |-> <<>>, alphas |-> alphas]

PLUMAGE_DARK == <<26, 26, 46>>
EYE_BLACK == <<10, 10, 14>>
EYE_WHITE == <<255, 255, 255>>
ACCENT_BLUE == <<0, 122, 255>>
ACCENT_BLUE_LIGHT == <<51, 153, 255>>
BG_LIGHT == <<17, 17, 22>>
BG_DARK == <<0, 0, 0>>

Op(op, a, b, src, part, geom) ==
    [op |-> op, a |-> a, b |-> b, src |-> src, part |-> part, geom |-> geom]

NoSource == Solid(<<0, 0, 0>>, Opaque)

Save == Op("save", 0, 0, NoSource, "", "")
Restore == Op("restore", 0, 0, NoSource, "", "")
Translate(x, y) == Op("translate", x, y, NoSource, "", "")
Rotate(deg) == Op("rotate", deg, 0, NoSource, "", "")
SetSource(src) == Op("source", 0, 0, src, "", "")
Path(part, geom) == Op("path", 0, 0, NoSource, part, geom)
Fill == Op("fill", 0, 0, NoSource, "", "")
FillPreserve == Op("fill_preserve", 0, 0, NoSource, "", "")
Stroke == Op("stroke", 0, 0, NoSource, "", "")
Paint == Op("paint", 0, 0, NoSource, "", "")

\* cairo.Context(surface): default source opaque black, identity
\* transformation, default antialiasing
NewContext ==
    [source |-> Solid(<<0, 0, 0>>, Opaque), ctm |-> <<>>, stack |-> <<>>,
     part |-> "", geom |-> "", err |-> FALSE, by |-> "", antialias |-> "default"]

Painted(op, c) ==
    [op |-> op, part |-> c.part, geom |-> c.geom, source |-> c.source,
     ctm |-> c.ctm, depth |-> Len(c.stack), mode |-> "over", by |-> c.by,
     antialias |-> c.antialias]

\* one context call applied to <<graphics state, paint log>>
ApplyOp(st, o) ==
    LET c == st[1]
        log == st[2]
    IN  CASE o.op = "save" ->
               <<[c EXCEPT !.stack = Append(@, [source |-> c.source, ctm |-> c.ctm])],
                 log>>
          [] o.op = "restore" ->
               IF Len(c.stack) = 0
               THEN <<[c EXCEPT !.err = TRUE], log>>
               ELSE <<[c EXCEPT !.source = c.stack[Len(c.stack)].source,
                                !.ctm = c.stack[Len(c.stack)].ctm,
                                !.stack = SubSeq(@, 1, Len(@) - 1)],
                      log>>
          [] o.op \in {"translate", "rotate"} ->
               <<[c EXCEPT !.ctm = Append(@, [op |-> o.op, a |-> o.a, b |-> o.b])],
                 log>>
          [] o.op = "source" -> <<[c EXCEPT !.source = o.src], log>>
          [] o.op = "path" -> <<[c EXCEPT !.part = o.part, !.geom = o.geom], log>>
          [] o.op \in {"fill", "stroke"} ->
               <<[c EXCEPT !.part = "", !.geom = ""], Append(log, Painted(o.op, c))>>
          [] o.op = "fill_preserve" -> <<c, Append(log, Painted("fill", c))>>
          [] o.op = "paint" ->
               <<c, Append(log, Painted("paint", [c EXCEPT !.part = "surface",
                                                           !.geom = "surface"]))>>

RECURSIVE ApplyOps(_, _)
ApplyOps(st, ops) ==
    IF ops = <<>> THEN st
    ELSE LET next == ApplyOp(st, Head(ops))
         IN  IF next = st THEN ApplyOps(st, Tail(ops)) ELSE ApplyOps(next, Tail(ops))

----------------------------------------------------------------------------
(* generate_app_icon_v2.py: the drawing functions as the context calls     *)
(* they make, lines 64-578                                                 *)

icon_cx == (RENDER_SIZE * Unit) \div 2
icon_cy == (RENDER_SIZE * Unit) \div 2 + icon_s(15) * Unit
icon_psize == icon_s(680) * Unit

\* psize * fraction, fraction in thousandths
frac(fraction) == (icon_psize * fraction) \div 1000

\* ctx.save(); ctx.translate(cx, head_cy); ctx.rotate(radians(3));
\* ctx.translate(-cx, -head_cy)    with head_cy = cy - psize * 0.22

head_tilt ==
    <<Save, Translate(icon_cx, icon_cy - frac(220)), Rotate(3),
      Translate(0 - icon_cx, 0 - (icon_cy - frac(220)))>>

draw_background_glow_first(variant) ==
    IF variant = "tinted"
    THEN <<SetSource(Solid(<<0, 0, 0>>, 0)), Paint>>
    ELSE <<SetSource(Gradient("radial", "glow",
               IF variant = "dark" THEN {180, 90, 30, 0} ELSE {240, 120, 40, 0})),
           Paint,
           SetSource(Solid(IF variant = "dark" THEN BG_DARK ELSE BG_LIGHT, Opaque)),
           Paint>>

\* lines 64-90
draw_background(variant) ==
    IF variant = "tinted"
    THEN <<SetSource(Solid(<<0, 0, 0>>, 0)), Paint>>
    ELSE <<SetSource(Solid(IF variant = "dark" THEN BG_DARK ELSE BG_LIGHT, Opaque)),
           Paint,
           SetSource(Gradient("radial", "glow",
               IF variant = "dark" THEN {180, 90, 30, 0} ELSE {240, 120, 40, 0})),
           Paint>>

\* lines 107-161
draw_body_shape(shadow) ==
    <<Path("body", "egg")>> \o
    (IF shadow THEN <<Fill>>
     ELSE <<SetSource(Gradient("linear", "body", {Opaque})), Fill>>)

\* lines 164-202
draw_belly ==
    <<Path("belly", "ellipse"), SetSource(Gradient("linear", "belly", {Opaque})), Fill>>

draw_head_unrestored(shadow) ==
    head_tilt \o <<Path("head", "ellipse")>> \o
    (IF shadow THEN <<Fill>>
     ELSE <<SetSource(Gradient("radial", "head", {Opaque})), Fill, Restore>>)

\* lines 205-246
draw_head(shadow) ==
    head_tilt \o <<Path("head", "ellipse")>> \o
    (IF shadow THEN <<Fill, Restore>>
     ELSE <<SetSource(Gradient("radial", "head", {Opaque})), Fill, Restore>>)

\* lines 249-272
draw_face_patch ==
    head_tilt \o
    <<Path("face_patch", "ellipse"), SetSource(Solid(<<255, 255, 255>>, Opaque)),
      Fill, Restore>>

\* lines 286-320: one eye
draw_eye(name) ==
    <<Path(name, "arc"), SetSource(Solid(EYE_WHITE, Opaque)), Fill,
      Path(name, "arc"), SetSource(Solid(EYE_BLACK, Opaque)), Fill,
      Path(name, "arc"), SetSource(Solid(<<255, 255, 255>>, 920)), Fill,
      Path(name, "arc"), SetSource(Solid(<<255, 255, 255>>, 550)), Fill>>

\* lines 275-322
draw_eyes == head_tilt \o draw_eye("left_eye") \o draw_eye("right_eye") \o <<Restore>>

\* lines 325-364
draw_beak ==
    head_tilt \o
    <<Path("beak", "rounded_triangle"),
      SetSource(Gradient("linear", "beak", {Opaque})), Fill, Restore>>

\* lines 367-390
draw_cheek_blush ==
    head_tilt \o
    <<SetSource(Gradient("radial", "blush", {150, 80, 0})), Path("blush_left", "arc"),
      Fill,
      SetSource(Gradient("radial", "blush", {150, 80, 0})), Path("blush_right", "arc"),
      Fill, Restore>>

\* lines 399-434: one wing; wing_y - wing_h * 0.4 = cy + psize * (0.02 - 0.088)
draw_wing(side, name, shadow) ==
    <<Save, Translate(icon_cx + side * frac(370), icon_cy + frac(20) - frac(88)),
      Rotate(side * 15), Path(name, "flipper")>> \o
    (IF shadow THEN <<Fill>>
     ELSE <<SetSource(Gradient("linear", "wing", {Opaque})), Fill>>) \o
    <<Restore>>

\* lines 393-434
draw_wings(shadow) ==
    draw_wing(0 - 1, "left_wing", shadow) \o draw_wing(1, "right_wing", shadow)

\* lines 437-487
draw_scarf ==
    <<Path("scarf", "wrap"), SetSource(Gradient("linear", "scarf", {Opaque})),
      FillPreserve, SetSource(Solid(ACCENT_BLUE_LIGHT, 500)), Stroke>>

\* lines 490-512
draw_feet ==
    <<Path("left_foot", "ellipse"), SetSource(Solid(ACCENT_BLUE, 700)), Fill,
      Path("right_foot", "ellipse"), SetSource(Solid(ACCENT_BLUE, 700)), Fill>>

\* lines 545-578
draw_tinted_silhouette_gradient ==
    <<SetSource(Solid(<<255, 255, 255>>, Opaque))>> \o
    draw_body_shape(FALSE) \o draw_head(TRUE) \o draw_wings(TRUE) \o
    <<Path("left_foot", "arc"), Fill, Path("right_foot", "arc"), Fill,
      Path("scarf", "tail"), Fill>>

draw_tinted_silhouette ==
    <<SetSource(Solid(<<255, 255, 255>>, Opaque))>> \o
    draw_body_shape(TRUE) \o draw_head(TRUE) \o draw_wings(TRUE) \o
    <<Path("left_foot", "arc"), Fill, Path("right_foot", "arc"), Fill,
      Path("scarf", "tail"), Fill>>

\* lines 527-529: shadow_func
shadow_func == draw_body_shape(TRUE) \o draw_head(TRUE)

ShadowPasses == 8

\* lines 98-103: pass i of draw_drop_shadow, i = 0..7; offset = s(2 + i * 0.5)
shadow_pass(k) ==
    <<Save, Translate(0, icon_s(2 * Unit + (k * Unit) \div 2)),
      SetSource(Solid(<<0, 0, 0>>, 30))>> \o shadow_func \o <<Restore>>

\* lines 532-542: draw order (back to front)
DrawOrder ==
    <<draw_feet, draw_body_shape(FALSE), draw_belly, draw_wings(FALSE), draw_scarf,
      draw_head(FALSE), draw_face_patch, draw_cheek_blush, draw_eyes, draw_beak>>

----------------------------------------------------------------------------
(* generate_app_icon.py (the Pillow generator): every drawing call         *)
(* replaces the pixels it covers, alpha included.                          *)

WHITE == <<255, 255, 255>>
WING_DARK == <<44, 44, 46>>
CARD_DARK == <<28, 28, 30>>
BELLY_WHITE == <<245, 245, 247>>
V1_EYE_BLACK == <<10, 10, 12>>
PURE_BLACK == <<0, 0, 0>>
V1_LIGHT_BG == <<24, 24, 28>>

V1Draw(op, part, geom, src, by) ==
    [op |-> op, part |-> part, geom |-> geom, source |-> src, ctm |-> <<>>,
     depth |-> 0, mode |-> "replace", by |-> by, antialias |-> "none"]

\* lines 92-213
draw_penguin(variant) ==
    <<V1Draw("ellipse", "body", "ellipse",
             Solid(IF variant # "tinted" THEN WING_DARK ELSE WHITE, Opaque), "part")>>
    \o (IF variant # "tinted"
        THEN <<V1Draw("ellipse", "belly", "ellipse", Solid(BELLY_WHITE, Opaque), "part")>>
        ELSE <<>>)
    \o <<V1Draw("ellipse", "head", "ellipse",
                Solid(IF variant # "tinted" THEN WING_DARK ELSE WHITE, Opaque), "part")>>
    \o (IF variant # "tinted"
        THEN <<V1Draw("ellipse", "face_patch", "ellipse", Solid(WHITE, Opaque), "part"),
               V1Draw("ellipse", "left_wing", "ellipse", Solid(CARD_DARK, Opaque), "part"),
               V1Draw("ellipse", "right_wing", "ellipse", Solid(CARD_DARK, Opaque), "part"),
               V1Draw("ellipse", "left_eye", "ellipse", Solid(V1_EYE_BLACK, Opaque), "part"),
               V1Draw("ellipse", "right_eye", "ellipse", Solid(V1_EYE_BLACK, Opaque), "part"),
               V1Draw("ellipse", "left_eye", "ellipse", Solid(WHITE, Opaque), "part"),
               V1Draw("ellipse", "right_eye", "ellipse", Solid(WHITE, Opaque), "part"),
               V1Draw("polygon", "beak", "triangle", Solid(ACCENT_BLUE, Opaque), "part"),
               V1Draw("ellipse", "scarf", "ellipse", Solid(ACCENT_BLUE, 588), "part")>>
        ELSE <<>>)

\* Image.new("RGBA", ...) of lines 218, 238, 258
v1_new_image(variant) ==
    V1Draw("new", "surface", "surface",
           IF variant = "tinted" THEN Solid(<<0, 0, 0>>, 0)
           ELSE Solid(IF variant = "dark" THEN PURE_BLACK ELSE V1_LIGHT_BG, Opaque),
           "background")

\* draw_subtle_glow, lines 68-89 (alpha at most 80 of 255), pasted with its
\* own alpha as mask
v1_glow ==
    [V1Draw("glow", "surface", "surface", Gradient("radial", "glow", {0, 313}),
            "background") EXCEPT !.mode = "over"]

\* generate_dark_icon / generate_light_icon pass variant="dark" (lines 226, 245)
v1_penguin_variant(variant) == IF variant = "tinted" THEN "tinted" ELSE "dark"

----------------------------------------------------------------------------
(* The icon programs: generate_app_icon_v2.main (lines 666-686) and        *)
(* generate_app_icon.main (lines 316-340): light, dark, tinted, then the   *)
(* catalog manifest.                                                       *)

AtI(label) == pc.icon = label
GotoI(label) == pc' = [pc EXCEPT !.icon = label]
\* the variant being generated: the argument of generate_icon when it is
\* called on its own, else the one main() has reached (lines 674-681)
variant == IF call.fn = "generate_icon" THEN call.args.variant ELSE Variants[vi]
Draw(by, ops) == ApplyOps(<<[ctx EXCEPT !.by = by], surface>>, ops)
otherThanIcon == <<lottieVars, calleeVars, svg>>

\* generate_icon lines 597-601
IconCreate ==
    /\ AtI("start") /\ script = "v2"
    /\ surface' = <<>>
    /\ ctx' = [NewContext EXCEPT !.antialias = "best"]
    /\ GotoI("background")
    /\ UNCHANGED <<script, vi, step, icons, files, otherThanIcon>>

\* generate_icon line 603
IconBackground ==
    /\ AtI("background")
    /\ LET r == Draw("background", draw_background(variant))
       IN  ctx' = r[1] /\ surface' = r[2]
    /\ GotoI("penguin")
    /\ UNCHANGED <<script, vi, step, icons, files, otherThanIcon>>

\* draw_penguin_full lines 515-530, entering draw_drop_shadow (line 96)
IconPenguin ==
    /\ AtI("penguin")
    /\ IF variant = "tinted"
       THEN /\ LET r == Draw("part", draw_tinted_silhouette)
               IN  ctx' = r[1] /\ surface' = r[2]
            /\ GotoI("save")
            /\ UNCHANGED step
       ELSE /\ LET r == Draw("shadow", <<Save>>)
               IN  ctx' = r[1] /\ surface' = r[2]
            /\ step' = 0
            /\ GotoI("shadow")
    /\ UNCHANGED <<script, vi, icons, files, otherThanIcon>>

\* draw_drop_shadow lines 97-104: one pass per step, then the outer restore
IconShadowPass ==
    /\ AtI("shadow")
    /\ IF step < ShadowPasses
       THEN /\ LET r == Draw("shadow", shadow_pass(step))
               IN  ctx' = r[1] /\ surface' = r[2]
            /\ step' = step + 1
            /\ UNCHANGED pc
       ELSE /\ LET r == Draw("shadow", <<Restore>>)
               IN  ctx' = r[1] /\ surface' = r[2]
            /\ step' = 1
            /\ GotoI("parts")
    /\ UNCHANGED <<script, vi, icons, files, otherThanIcon>>

\* draw_penguin_full lines 533-542: one drawing function per step
IconDrawPart ==
    /\ AtI("parts")
    /\ LET r == Draw("part", DrawOrder[step])
       IN  ctx' = r[1] /\ surface' = r[2]
    /\ IF step = Len(DrawOrder) THEN step' = 0 /\ GotoI("save")
                                ELSE step' = step + 1 /\ UNCHANGED pc
    /\ UNCHANGED <<script, vi, icons, files, otherThanIcon>>

\* generate_app_icon.py: Image.new of generate_*_icon
V1New ==
    /\ AtI("start") /\ script = "v1"
    /\ surface' = <<v1_new_image(variant)>>
    /\ IF variant = "tinted" THEN GotoI("v1_penguin") ELSE GotoI("v1_glow")
    /\ UNCHANGED <<script, vi, ctx, step, icons, files, otherThanIcon>>

\* draw_subtle_glow (lines 222, 242)
V1Glow ==
    /\ AtI("v1_glow")
    /\ surface' = Append(surface, v1_glow)
    /\ GotoI("v1_penguin")
    /\ UNCHANGED <<script, vi, ctx, step, icons, files, otherThanIcon>>

\* draw_penguin (lines 226, 245, 260)
V1Penguin ==
    /\ AtI("v1_penguin")
    /\ surface' = surface \o draw_penguin(v1_penguin_variant(variant))
    /\ GotoI("save")
    /\ UNCHANGED <<script, vi, ctx, step, icons, files, otherThanIcon>>

\* downsample, lines 581-592: the render surface painted, scaled by
\* OUTPUT_SIZE / RENDER_SIZE with FILTER_BEST, onto a new surface
downsample(log) ==
    IF OUTPUT_SIZE < RENDER_SIZE
    THEN Append(log, [op |-> "paint", part |-> "surface", geom |-> "surface",
                      source |-> [kind |-> "surface", name |-> "render",
                                  rgb |-> <<>>, alphas |-> {}],
                      ctm |-> <<>>, depth |-> 0, mode |-> "filter",
                      by |-> "downsample", antialias |-> "best"])
    ELSE log

\* generate_dark_icon lines 229-231, generate_light_icon lines 248-250: a new
\* opaque image of the background colour, and img pasted on it with its own
\* alpha as mask; by "flatten" marks the calls made on that new image.
\* generate_tinted_icon returns img itself (line 261)
v1_flatten(variant_, log) ==
    IF variant_ = "tinted" THEN log
    ELSE log \o
         <<V1Draw("new", "surface", "surface",
                  Solid(IF variant_ = "dark" THEN PURE_BLACK ELSE V1_LIGHT_BG, Opaque),
                  "flatten"),
           [V1Draw("paste", "surface", "surface",
                   [kind |-> "surface", name |-> "img", rgb |-> <<>>, alphas |-> {}],
                   "flatten") EXCEPT !.mode = "over"]>>

\* the return of generate_icon (lines 605-607), of generate_*_icon, and
\* save_png / save_icon
IconSave ==
    /\ AtI("save")
    /\ icons' = [icons EXCEPT ![variant] =
                     IF script = "v2" THEN downsample(surface)
                                      ELSE v1_flatten(variant, surface)]
    /\ files' = [files EXCEPT ![IconFile(variant)] = File(variant, icons'[variant])]
    /\ IF vi = Len(Variants) THEN GotoI("contents") /\ UNCHANGED vi
                             ELSE vi' = vi + 1 /\ GotoI("start")
    /\ UNCHANGED <<script, ctx, surface, step, otherThanIcon>>

\* the file names Contents.json lists (v2 lines 621-658, v1 lines 274-310)
contents_json == [k \in 1..Len(Variants) |-> "icon-" \o Variants[k] \o ".png"]

\* write_contents_json (v2 lines 619-663, v1 lines 333-335)
IconContents ==
    /\ AtI("contents")
    /\ files' = [files EXCEPT ![ContentsPath] = File("manifest", contents_json)]
    /\ GotoI("done")
    /\ UNCHANGED <<iconVars, otherThanIcon>>

IconNext ==
    \/ IconCreate \/ IconBackground \/ IconPenguin \/ IconShadowPass
    \/ IconDrawPart \/ V1New \/ V1Glow \/ V1Penguin \/ IconSave \/ IconContents

IconInit ==
    /\ script \in {"v1", "v2"}
    /\ vi = 1
    /\ ctx = NewContext
    /\ surface = <<>>
    /\ step = 0
    /\ icons = [v \in {Variants[k] : k \in 1..Len(Variants)} |-> <<>>]

----------------------------------------------------------------------------
(* The path primitives of generate_nudgy_lottie_v1.py (lines 59-222) and   *)
(* of generate_nudgy_svg.py (lines 60-69, 188-229), called on their own.   *)
(* Arguments are lengths in model units (Unit per pixel).  A product of a  *)
(* length and a three-decimal factor is kept whole, so the numbers of a    *)
(* path are in Unit * Unit per pixel; wing_path, which also multiplies by  *)
(* a cosine or sine, keeps its numbers in WingScale per model unit.        *)

KAPPA == 5522848
KappaDigits == 10000000

\* |x| * KAPPA, in Unit * Unit per pixel, rounded toward zero
KappaMagnitude(x) ==
    LET a == x * (KAPPA \div 1000)
    IN  (a \div 10) + (((a % 10) * 1000 + x * (KAPPA % 1000)) \div (KappaDigits \div 1000))

\* x * KAPPA; a float product is symmetric in the sign of x
KappaTimes(x) == IF x < 0 THEN 0 - KappaMagnitude(0 - x) ELSE KappaMagnitude(x)

BezierPath(v, i_, o_) == [c |-> TRUE, v |-> v, i |-> i_, o |-> o_]

ellipse_bezier_path_lopsided(cx, cy, rx, ry) ==
    BezierPath(
        << <<cx * Unit, (cy - ry) * Unit>>, <<(cx + rx) * Unit, cy * Unit>>,
           <<cx * Unit, (cy + ry) * Unit>>, <<(cx - rx) * Unit, cy * Unit>> >>,
        << <<0 - KappaTimes(rx), 0>>, <<0, 0 - KappaTimes(ry)>>,
           <<KappaTimes(rx), 0>>, <<0, KappaTimes(rx)>> >>,
        << <<KappaTimes(rx), 0>>, <<0, KappaTimes(ry)>>,
           <<0 - KappaTimes(rx), 0>>, <<0, 0 - KappaTimes(ry)>> >>)

\* lines 61-83: top, right, bottom, left
ellipse_bezier_path(cx, cy, rx, ry) ==
    BezierPath(
        << <<cx * Unit, (cy - ry) * Unit>>, <<(cx + rx) * Unit, cy * Unit>>,
           <<cx * Unit, (cy + ry) * Unit>>, <<(cx - rx) * Unit, cy * Unit>> >>,
        << <<0 - KappaTimes(rx), 0>>, <<0, 0 - KappaTimes(ry)>>,
           <<KappaTimes(rx), 0>>, <<0, KappaTimes(ry)>> >>,
        << <<KappaTimes(rx), 0>>, <<0, KappaTimes(ry)>>,
           <<0 - KappaTimes(rx), 0>>, <<0, 0 - KappaTimes(ry)>> >>)

\* the seven points the source comment counts: the top centre once more,
\* with no tangents of its own
egg_shape_path_seven(cx, cy, body_w, body_h) ==
    LET body_cy == cy * Unit
        top_y == body_cy - body_h * 850
        x0 == cx * Unit
    IN  BezierPath(
            << <<x0, top_y>>,
               <<x0 + body_w * 950, body_cy - body_h * 100>>,
               <<x0 + body_w * 750, body_cy + body_h * 700>>,
               <<x0, body_cy + body_h * 950>>,
               <<x0 - body_w * 750, body_cy + body_h * 700>>,
               <<x0 - body_w * 950, body_cy - body_h * 100>>,
               <<x0, top_y>> >>,
            << <<0 - body_w * 450, 0>>, <<0, 0 - body_h * 450>>,
               <<body_w * 250, body_h * 150>>, <<body_w * 400, 0>>,
               <<0 - body_w * 250, body_h * 150>>, <<0, body_h * 450>> >>,
            << <<body_w * 450, 0>>, <<0, body_h * 450>>,
               <<0 - body_w * 250, body_h * 150>>, <<0 - body_w * 400, 0>>,
               <<body_w * 250, body_h * 150>>, <<0, 0 - body_h * 450>> >>)

\* lines 86-119: six vertices (the source comment counts seven points)
egg_shape_path(cx, cy, body_w, body_h) ==
    LET body_cy == cy * Unit
        top_y == body_cy - body_h * 850
        x0 == cx * Unit
    IN  BezierPath(
            << <<x0, top_y>>,
               <<x0 + body_w * 950, body_cy - body_h * 100>>,
               <<x0 + body_w * 750, body_cy + body_h * 700>>,
               <<x0, body_cy + body_h * 950>>,
               <<x0 - body_w * 750, body_cy + body_h * 700>>,
               <<x0 - body_w * 950, body_cy - body_h * 100>> >>,
            << <<0 - body_w * 450, 0>>, <<0, 0 - body_h * 450>>,
               <<body_w * 250, body_h * 150>>, <<body_w * 400, 0>>,
               <<0 - body_w * 250, body_h * 150>>, <<0, body_h * 450>> >>,
            << <<body_w * 450, 0>>, <<0, body_h * 450>>,
               <<0 - body_w * 250, body_h * 150>>, <<0 - body_w * 400, 0>>,
               <<body_w * 250, body_h * 150>>, <<0, 0 - body_h * 450>> >>)

\* lines 122-139
rounded_triangle_path(cx, cy, w, h) ==
    BezierPath(
        << <<cx * Unit, cy * Unit + h * 1000>>,
           <<cx * Unit - w * 800, cy * Unit - h * 500>>,
           <<cx * Unit + w * 800, cy * Unit - h * 500>> >>,
        << <<w * 300, 0 - h * 300>>, <<0, h * 300>>, <<w * 300, 0>> >>,
        << <<0 - w * 300, 0 - h * 300>>, <<0 - w * 300, 0>>, <<0, h * 300>> >>)

\* cos and sin of a whole number of degrees, in hundredths
Cos100(deg) ==
    CASE deg = 0 -> 100 [] deg = 15 -> 97 [] deg = 30 -> 87 [] deg = 45 -> 71
      [] deg = 60 -> 50 [] deg = 90 -> 0
Sin100(deg) ==
    CASE deg = 0 -> 0 [] deg = 15 -> 26 [] deg = 30 -> 50 [] deg = 45 -> 71
      [] deg = 60 -> 87 [] deg = 90 -> 100

\* a length times a factor in twentieths times a hundredth: WingScale per unit
WingScale == 20 * 100

\* the incoming tangents rotated as points: carried to the pivot as well
wing_path_translated(cx, cy, side, wing_w, wing_h, angle_deg) ==
    LET wing_x == cx + side * p(370)
        wy == cy + p(20)
        oy == wy * WingScale - wing_h * 8 * 100
        cos_a == Cos100(angle_deg)
        sin_a == side * Sin100(angle_deg)
        rot(x, y) == <<x * cos_a - y * sin_a + wing_x * WingScale,
                       x * sin_a + y * cos_a + oy>>
        rot_t(x, y) == <<x * cos_a - y * sin_a, x * sin_a + y * cos_a>>
    IN  BezierPath(
            <<rot(0, 0 - wing_h * 10), rot(side * wing_w * 18, 0),
              rot(side * wing_w * 8, wing_h * 10), rot(0 - side * wing_w * 2, 0)>>,
            <<rot(0 - side * wing_w * 4, 0 - wing_h * 2), rot(0, 0 - wing_h * 5),
              rot(side * wing_w * 6, 0), rot(0, wing_h * 4)>>,
            <<rot_t(side * wing_w * 6, 0), rot_t(0, wing_h * 5),
              rot_t(0 - side * wing_w * 4, 0), rot_t(0, 0 - wing_h * 4)>>)

wing_path_unmirrored(cx, cy, side, wing_w, wing_h, angle_deg) ==
    LET wing_x == cx + side * p(370)
        wy == cy + p(20)
        oy == wy * WingScale - wing_h * 8 * 100
        cos_a == Cos100(angle_deg)
        sin_a == Sin100(angle_deg)
        rot(x, y) == <<x * cos_a - y * sin_a + wing_x * WingScale,
                       x * sin_a + y * cos_a + oy>>
        rot_t(x, y) == <<x * cos_a - y * sin_a, x * sin_a + y * cos_a>>
    IN  BezierPath(
            <<rot(0, 0 - wing_h * 10), rot(side * wing_w * 18, 0),
              rot(side * wing_w * 8, wing_h * 10), rot(0 - side * wing_w * 2, 0)>>,
            <<rot_t(0 - side * wing_w * 4, 0 - wing_h * 2), rot_t(0, 0 - wing_h * 5),
              rot_t(side * wing_w * 6, 0), rot_t(0, wing_h * 4)>>,
            <<rot_t(side * wing_w * 6, 0), rot_t(0, wing_h * 5),
              rot_t(0 - side * wing_w * 4, 0), rot_t(0, 0 - wing_h * 4)>>)

\* lines 142-186; rad = radians(side * angle_deg), so the sine takes the
\* sign of side and the cosine does not
wing_path(cx, cy, side, wing_w, wing_h, angle_deg) ==
    LET wing_x == cx + side * p(370)
        wy == cy + p(20)
        oy == wy * WingScale - wing_h * 8 * 100
        cos_a == Cos100(angle_deg)
        sin_a == side * Sin100(angle_deg)
        rot(x, y) == <<x * cos_a - y * sin_a + wing_x * WingScale,
                       x * sin_a + y * cos_a + oy>>
        rot_t(x, y) == <<x * cos_a - y * sin_a, x * sin_a + y * cos_a>>
    IN  BezierPath(
            <<rot(0, 0 - wing_h * 10), rot(side * wing_w * 18, 0),
              rot(side * wing_w * 8, wing_h * 10), rot(0 - side * wing_w * 2, 0)>>,
            <<rot_t(0 - side * wing_w * 4, 0 - wing_h * 2), rot_t(0, 0 - wing_h * 5),
              rot_t(side * wing_w * 6, 0), rot_t(0, wing_h * 4)>>,
            <<rot_t(side * wing_w * 6, 0), rot_t(0, wing_h * 5),
              rot_t(0 - side * wing_w * 4, 0), rot_t(0, 0 - wing_h * 4)>>)

\* lines 189-222
scarf_path(cx, cy) ==
    LET scarf_y == (cy - p(65)) * Unit
        sh == p(35)
        sw == p(300)
        x0 == cx * Unit
    IN  BezierPath(
            << <<x0 - sw * 1000, scarf_y - sh * 1000>>,
               <<x0, scarf_y - sh * 1800>>,
               <<x0 + sw * 1000, scarf_y - sh * 1000>>,
               <<x0 + sw * 500, scarf_y + sh * 2000>>,
               <<x0 + sw * 650, scarf_y + sh * 5000>>,
               <<x0 + sw * 250, scarf_y + sh * 3000>>,
               <<x0 - sw * 300, scarf_y + sh * 2000>> >>,
            << <<0, sh * 500>>, <<0 - sw * 400, 0>>, <<sw * 400, 0>>,
               <<sw * 150, 0 - sh * 1500>>, <<sw * 100, 0 - sh * 1000>>,
               <<sw * 100, sh * 800>>, <<0 - sw * 300, sh * 300>> >>,
            << <<0, 0 - sh * 500>>, <<sw * 400, 0>>, <<sw * 50, sh * 1000>>,
               <<sw * 100, sh * 1200>>, <<0 - sw * 150, sh * 800>>,
               <<0 - sw * 150, 0 - sh * 1000>>, <<0 - sw * 400, 0 - sh * 300>> >>)

\* generate_nudgy_svg.py fmt(val) of a value held in Unit * Unit per pixel:
\* the number printed, in hundredths of a pixel
fmt_hundredths(val) == (val + (Unit * Unit) \div 200) \div ((Unit * Unit) \div 100)

\* an SVG path string "M v1 C c1 c2 v2 C ... Z": the anchors reached, and
\* the first and second control point of the segment leaving each anchor;
\* the last segment ends on the first anchor again
SvgPathString(v, c1, c2) == [c |-> TRUE, v |-> v, c1 |-> c1, c2 |-> c2]

\* generate_nudgy_svg.py lines 60-69
ellipse_path(cx, cy, rx, ry) ==
    LET X(x) == fmt_hundredths(cx * Unit + x)
        Y(y) == fmt_hundredths(cy * Unit + y)
        kx == KappaTimes(rx)
        ky == KappaTimes(ry)
    IN  SvgPathString(
            << <<X(0), Y(0 - ry * Unit)>>, <<X(rx * Unit), Y(0)>>,
               <<X(0), Y(ry * Unit)>>, <<X(0 - rx * Unit), Y(0)>> >>,
            << <<X(kx), Y(0 - ry * Unit)>>, <<X(rx * Unit), Y(ky)>>,
               <<X(0 - kx), Y(ry * Unit)>>, <<X(0 - rx * Unit), Y(0 - ky)>> >>,
            << <<X(rx * Unit), Y(0 - ky)>>, <<X(kx), Y(ry * Unit)>>,
               <<X(0 - rx * Unit), Y(ky)>>, <<X(0 - kx), Y(0 - ry * Unit)>> >>)

\* generate_nudgy_svg.py lines 188-229: the flipper of the vector artwork,
\* its sizes fixed; the points are rotated, then printed through fmt
svg_wing_path(side) ==
    LET wing_h == svg_p(220)
        wing_w == svg_p(100)
        wing_y == SVG_CY + svg_p(20)
        wing_x == SVG_CX + side * svg_p(370)
        ox == wing_x
        oy == wing_y - (wing_h * 4) \div 10
        cos_a == Cos100(15)
        sin_a == side * Sin100(15)
        \* local coordinates in hundredths of a model unit
        rot(x, y) ==
            <<fmt_hundredths((x * cos_a - y * sin_a) \div 10 + ox * Unit),
              fmt_hundredths((x * sin_a + y * cos_a) \div 10 + oy * Unit)>>
        p0 == rot(0, 0 - wing_h * 50)
        c1 == rot(side * wing_w * 80, 0 - wing_h * 30)
        c2 == rot(side * wing_w * 120, wing_h * 10)
        p1 == rot(side * wing_w * 60, wing_h * 50)
        c3 == rot(side * wing_w * 20, wing_h * 65)
        c4 == rot(0 - side * wing_w * 20, wing_h * 20)
    IN  SvgPathString(<<p0, p1>>, <<c1, c3>>, <<c2, c4>>)

\* generate_nudgy_svg.py lines 72-102, 168-186, 232-263: the path strings
\* of the body, the beak and the scarf; a point is the centre plus
\* thousandths of the part's half-sizes, printed through fmt
SvgPoint(cy_, w, h, fx, fy) ==
    <<fmt_hundredths(SVG_CX * Unit + w * fx), fmt_hundredths(cy_ * Unit + h * fy)>>

svg_body_path ==
    LET body_w == svg_p(440)
        body_h == svg_p(480)
        body_cy == SVG_CY + svg_p(80)
        P(fx, fy) == SvgPoint(body_cy, body_w, body_h, fx, fy)
    IN  SvgPathString(
            <<P(0, 0 - 850), P(950, 500), P(0, 950), P(0 - 950, 500)>>,
            <<P(600, 0 - 850), P(850, 850), P(0 - 400, 1000), P(0 - 1100, 0 - 150)>>,
            <<P(1100, 0 - 150), P(400, 1000), P(0 - 850, 850), P(0 - 600, 0 - 850)>>)

svg_beak_path ==
    LET head_cy == SVG_CY - svg_p(220)
        beak_cy == head_cy + svg_p(95)
        beak_w == svg_p(42)
        beak_h == svg_p(35)
        P(fx, fy) == SvgPoint(beak_cy, beak_w, beak_h, fx, fy)
    IN  SvgPathString(
            <<P(0, 1000), P(0 - 800, 0 - 500), P(800, 0 - 500)>>,
            <<P(0 - 300, 300), P(0 - 400, 0 - 900), P(1000, 0 - 200)>>,
            <<P(0 - 1000, 0 - 200), P(400, 0 - 900), P(300, 300)>>)

svg_scarf_path ==
    LET scarf_y == SVG_CY - svg_p(65)
        scarf_h == svg_p(35)
        scarf_w == svg_p(300)
        P(fx, fy) == SvgPoint(scarf_y, scarf_w, scarf_h, fx, fy)
    IN  SvgPathString(
            <<P(0 - 1000, 0 - 1000), P(1000, 0 - 1000), P(300, 2000), P(550, 6500),
              P(150, 2000)>>,
            <<P(0 - 500, 0 - 1800), P(1050, 500), P(650, 4000), P(350, 5000),
              P(0 - 300, 2800)>>,
            <<P(500, 0 - 1800), P(500, 2500), P(850, 5500), P(450, 3500),
              P(0 - 800, 1500)>>)

\* the path string of each bezier-path group of the vector document
\* (lines 373-411)
svg_d(id) ==
    CASE id = "body" -> svg_body_path
      [] id = "left_wing" -> svg_wing_path(0 - 1)
      [] id = "right_wing" -> svg_wing_path(1)
      [] id = "scarf" -> svg_scarf_path
      [] id = "beak" -> svg_beak_path

\* the path each bezier-path layer of the animation is built from
\* (generate_nudgy_lottie_v1.py lines 421, 456, 470, 606)
lottie_shape_path(nm) ==
    CASE nm = "Body" -> egg_shape_path(CX, CY + p(80), p(440), p(480))
      [] nm = "Left Wing" -> wing_path(CX, CY, 0 - 1, p(100), p(220), 15)
      [] nm = "Right Wing" -> wing_path(CX, CY, 1, p(100), p(220), 15)
      [] nm = "Scarf" -> scarf_path(CX, CY)
      [] nm = "Beak" -> rounded_triangle_path(CX, CY - p(220) + p(95), p(42), p(35))

NoPath == [c |-> FALSE, v |-> <<>>]

\* the primitives that take sizes
Sized ==
    {"ellipse_bezier_path", "egg_shape_path", "rounded_triangle_path", "wing_path",
     "ellipse_path"}
Primitives == Sized \cup {"scarf_path", "svg_wing_path"}

\* the arguments the primitives are called with
Centres == {100 * Unit, 200 * Unit}
Sizes == {0 - 5 * Unit, 0, 30 * Unit, 50 * Unit, 102816}
Sides == {0 - 1, 1}
Angles == {0, 15, 30, 90}

Args(cx, cy, a, b, side, angle_deg) ==
    [cx |-> cx, cy |-> cy, a |-> a, b |-> b, side |-> side, angle_deg |-> angle_deg]

\* the value a call returns; no primitive raises
Returned(fn, args) ==
    CASE fn = "ellipse_bezier_path" -> ellipse_bezier_path(args.cx, args.cy, args.a, args.b)
      [] fn = "egg_shape_path" -> egg_shape_path(args.cx, args.cy, args.a, args.b)
      [] fn = "rounded_triangle_path" ->
             rounded_triangle_path(args.cx, args.cy, args.a, args.b)
      [] fn = "wing_path" ->
             wing_path(args.cx, args.cy, args.side, args.a, args.b, args.angle_deg)
      [] fn = "scarf_path" -> scarf_path(args.cx, args.cy)
      [] fn = "ellipse_path" -> ellipse_path(args.cx, args.cy, args.a, args.b)
      [] fn = "svg_wing_path" -> svg_wing_path(args.side)

NoCall ==
    [fn |-> "", args |-> Args(0, 0, 0, 0, 1, 0), at |-> "idle", path |-> NoPath,
     image |-> <<>>, raised |-> ""]

PathCall ==
    /\ call.at = "called"
    /\ call.fn \in Primitives
    /\ call' = [call EXCEPT !.path = Returned(call.fn, call.args), !.at = "returned"]
    /\ UNCHANGED <<pc, lottieVars, swayVars, embedVars, jobs, svg, files, iconVars>>

----------------------------------------------------------------------------
(* lottie_downloads/embed_images.py *)

\* line 7: the animations of the batch
EmbedNames == <<"pudgy", "sleeping_penguin">>

\* os.path.splitext(p)[1].lower() (line 28) of the file names in use
Ext(p_) ==
    CASE p_ = "image_0.png" -> ".png"
      [] p_ = "image_1.webp" -> ".webp"
      [] p_ = "image_2.JPG" -> ".jpg"
      [] OTHER -> ""

\* lines 29-34
Mime(ext) == IF ext = ".webp" THEN "image/webp" ELSE "image/png"

\* base64.b64encode(z.read(name)).decode() (lines 27, 36)
B64(name) == "b64(" \o name \o ")"

Asset(id, p_, u, e) == [id |-> id, p |-> p_, u |-> u, e |-> e]

\* a failed lookup that also clears the asset's file name
embed_asset_cleared(asset, image_files) ==
    LET possible == "images/" \o asset.p
    IN  IF possible \in image_files
        THEN [asset EXCEPT !.u = "",
                           !.p = "data:" \o Mime(Ext(asset.p)) \o ";base64,"
                                     \o B64(possible),
                           !.e = 1]
        ELSE [asset EXCEPT !.p = ""]

\* lines 25-39: the asset after one pass of the inner loop
embed_asset(asset, image_files) ==
    LET possible == "images/" \o asset.p
    IN  IF possible \in image_files
        THEN [asset EXCEPT !.u = "",
                           !.p = "data:" \o Mime(Ext(asset.p)) \o ";base64,"
                                     \o B64(possible),
                           !.e = 1]
        ELSE asset

\* lines 23, 40, 42-43: the lines one pass of the inner loop prints
asset_lines(name, asset, image_files) ==
    LET possible == "images/" \o asset.p
    IN  <<[line |-> "Asset", name |-> name, id |-> asset.id, key |-> asset.p]>>
        \o IF possible \in image_files
           THEN <<[line |-> "Embedded", name |-> name, id |-> asset.id,
                   key |-> possible]>>
           ELSE <<[line |-> "Image not found", name |-> name, id |-> asset.id,
                   key |-> possible],
                  [line |-> "Available", name |-> name, id |-> asset.id,
                   key |-> ""]>>

\* lines 8-16: the document is loaded and the archive opened
EmbedOpen ==
    /\ em_pc = "open"
    /\ data' = extracted[EmbedNames[em_name]]
    /\ printed' = Append(printed, [line |-> "images", name |-> EmbedNames[em_name],
                                   id |-> "", key |-> ""])
    /\ em_asset' = 1
    /\ em_pc' = "assets"
    /\ UNCHANGED <<em_name, extracted, archive, pc, lottieVars, swayVars, call,
                   jobs, svg, files, iconVars>>

\* lines 18-43: one asset per step; line 45 once the loop is over
EmbedAsset ==
    /\ em_pc = "assets"
    /\ IF em_asset <= Len(data)
       THEN /\ data' = [data EXCEPT ![em_asset] =
                           embed_asset(data[em_asset], archive[EmbedNames[em_name]])]
            /\ printed' = printed \o asset_lines(EmbedNames[em_name], data[em_asset],
                                                 archive[EmbedNames[em_name]])
            /\ em_asset' = em_asset + 1
            /\ UNCHANGED em_pc
       ELSE /\ em_pc' = "write"
            /\ UNCHANGED <<data, printed, em_asset>>
    /\ UNCHANGED <<em_name, extracted, archive, pc, lottieVars, swayVars, call,
                   jobs, svg, files, iconVars>>

\* lines 45-50: the document is written over extracted/<name>.json
EmbedWrite ==
    /\ em_pc = "write"
    /\ extracted' = [extracted EXCEPT ![EmbedNames[em_name]] = data]
    /\ printed' = Append(printed, [line |-> "Saved", name |-> EmbedNames[em_name],
                                   id |-> "", key |-> ""])
    /\ IF em_name < Len(EmbedNames)
       THEN em_name' = em_name + 1 /\ em_pc' = "open"
       ELSE em_pc' = "done" /\ UNCHANGED em_name
    /\ UNCHANGED <<em_asset, data, archive, pc, lottieVars, swayVars, call,
                   jobs, svg, files, iconVars>>

EmbedIdle ==
    /\ em_pc = "idle" /\ em_name = 1 /\ em_asset = 1 /\ data = <<>>
    /\ extracted = [n \in {EmbedNames[k] : k \in 1..Len(EmbedNames)} |-> <<>>]
    /\ archive = [n \in {EmbedNames[k] : k \in 1..Len(EmbedNames)} |-> {}]
    /\ printed = <<>>

----------------------------------------------------------------------------
(* The exports as calls that run side by side: each raster variant, the    *)
(* manifest, the vector document and the animation document is generated   *)
(* from its own locals and then written to its own path.                   *)

\* one drawing function after another on the same context and surface
RECURSIVE ApplyAll(_, _)
ApplyAll(st, seqs) ==
    IF seqs = <<>> THEN st
    ELSE LET next == ApplyOps(st, Head(seqs))
         IN  IF next = st THEN ApplyAll(st, Tail(seqs)) ELSE ApplyAll(next, Tail(seqs))

\* generate_app_icon_v2.py draw_penguin_full (lines 515-542) on a context
\* and surface
draw_penguin_full(state, variant_) ==
    IF variant_ = "tinted"
    THEN ApplyOps(<<[state[1] EXCEPT !.by = "part"], state[2]>>, draw_tinted_silhouette)
    ELSE LET shadowed ==
                 ApplyAll(<<[state[1] EXCEPT !.by = "shadow"], state[2]>>,
                          << <<Save>> >>
                          \o [k \in 1..ShadowPasses |-> shadow_pass(k - 1)]
                          \o << <<Restore>> >>)
         IN  ApplyAll(<<[shadowed[1] EXCEPT !.by = "part"], shadowed[2]>>, DrawOrder)

\* generate_icon (lines 595-608): the image it returns
generate_icon(variant_) ==
    LET background ==
            ApplyOps(<<[NewContext EXCEPT !.antialias = "best", !.by = "background"],
                       <<>> >>,
                     draw_background(variant_))
    IN  downsample(draw_penguin_full(background, variant_)[2])

\* generate_app_icon.py generate_light_icon, generate_dark_icon,
\* generate_tinted_icon (lines 213-261)
generate_v1_icon(variant_) ==
    v1_flatten(variant_,
        <<v1_new_image(variant_)>>
        \o (IF variant_ = "tinted" THEN <<>> ELSE <<v1_glow>>)
        \o draw_penguin(v1_penguin_variant(variant_)))

\* build_scarf_counter_sway lines 707-722
RECURSIVE scarf_loop(_, _)
scarf_loop(time, dir) ==
    IF time <= TOTAL_FRAMES
    THEN <<scarf_kf(time, dir)>> \o scarf_loop(time + scarf_half_cycle, dir * (0 - 1))
    ELSE <<>>
build_scarf_counter_sway ==
    [default_transform EXCEPT
        !.p = Animated(Append(scarf_loop(phase_offset, scarf_start_direction),
                              scarf_closing))]

\* generate_lottie lines 774-786
RECURSIVE sway_loop(_, _, _)
sway_loop(static_val, time, dir) ==
    IF time <= TOTAL_FRAMES
    THEN <<sway_kf(static_val, time, dir)>>
         \o sway_loop(static_val, time + half_cycle, dir * (0 - 1))
    ELSE <<>>

\* generate_lottie (lines 725-804): the document it returns
generate_lottie ==
    LET base(nm) == BuildCalls[CHOOSE k \in 1..Len(BuildCalls) : BuildCalls[k].nm = nm]
        scarfed(nm) == IF nm = "Scarf"
                       THEN [base(nm) EXCEPT !.ks = build_scarf_counter_sway]
                       ELSE base(nm)
        swayed(layer) ==
            IF is_static(layer.ks.p)
            THEN [layer EXCEPT !.ks.p =
                     Animated(Append(sway_loop(layer.ks.p.k, 0, 1),
                                     sway_closing(layer.ks.p.k)))]
            ELSE layer
    IN  [v |-> "5.12.1", fr |-> FPS, ip |-> 0, op |-> TOTAL_FRAMES,
         w |-> W, h |-> H, nm |-> "Nudgy Idle",
         layers |-> [j \in 1..Len(LayerList) |->
                        swayed([scarfed(LayerList[j]) EXCEPT !.ind = j - 1])]]

\* the exports, and the path each one writes (v2 lines 674-683, v1 lines
\* 324-335, svg lines 427-433, lottie lines 811-820)
RasterExports == {Variants[k] : k \in 1..Len(Variants)}
Exports == RasterExports \cup {"manifest", "vector", "animation"}
PathOf(export) ==
    CASE export = "manifest" -> ContentsPath
      [] export = "vector" -> SvgPath
      [] export = "animation" -> LottiePath
      [] OTHER -> IconFile(export)

\* what an export returns to the caller that writes it
ExportValue(export) ==
    CASE export = "manifest" -> contents_json
      [] export = "vector" -> generate_svg
      [] export = "animation" -> generate_lottie
      [] OTHER -> IF script = "v2" THEN generate_icon(export)
                                   ELSE generate_v1_icon(export)

NoJob == [at |-> "idle", value |-> <<>>]
JobsIdle == jobs = [e \in Exports |-> NoJob]

\* the call that builds the export's value from its own locals
ExportGenerate(export) ==
    /\ jobs[export].at = "start"
    /\ jobs' = [jobs EXCEPT ![export] = [at |-> "generated",
                                         value |-> ExportValue(export)]]
    /\ UNCHANGED <<pc, lottieVars, swayVars, call, embedVars, svg, files, iconVars>>

\* save_png / save_icon, write_contents_json, and the open/write of the mains
ExportWrite(export) ==
    /\ jobs[export].at = "generated"
    /\ files' = [files EXCEPT ![PathOf(export)] = File(export, jobs[export].value)]
    /\ jobs' = [jobs EXCEPT ![export].at = "written"]
    /\ UNCHANGED <<pc, lottieVars, swayVars, call, embedVars, svg, iconVars>>

----------------------------------------------------------------------------
(* Specifications *)

Init ==
    /\ pc = [lottie |-> "start", sway |-> "idle", svg |-> "start", icon |-> "start"]
    /\ LottieInit
    /\ SwayIdle
    /\ call = NoCall
    /\ EmbedIdle
    /\ JobsIdle
    /\ svg = NoSvg
    /\ files = [f \in Paths |-> NoFile]
    /\ IconInit

Next == LottieNext \/ LottieWrite \/ SvgNext \/ IconNext

Spec == Init /\ [][Next]_vars

\* sway_keyframes applied to every argument within the bounds
InitSway ==
    /\ pc = [lottie |-> "start", sway |-> "loop", svg |-> "start", icon |-> "start"]
    /\ LottieInit
    /\ svg = NoSvg
    /\ files = [f \in Paths |-> NoFile]
    /\ IconInit
    /\ axis \in {"x", "y"}
    /\ amplitude \in 1..MaxAmplitude
    /\ frames_per_half_cycle \in 1..MaxHalfCycle
    /\ sw_t = 0 /\ sw_direction = 1 /\ sw_keyframes = <<>> /\ sw_result = <<>>
    /\ call = NoCall
    /\ EmbedIdle
    /\ JobsIdle

NextSway == SwayKeyframesStep

SpecSway == InitSway /\ [][NextSway]_vars

\* each path primitive applied to every argument within the bounds
InitPath ==
    /\ pc = [lottie |-> "start", sway |-> "idle", svg |-> "start", icon |-> "start"]
    /\ LottieInit
    /\ SwayIdle
    /\ EmbedIdle
    /\ JobsIdle
    /\ svg = NoSvg
    /\ files = [f \in Paths |-> NoFile]
    /\ IconInit
    /\ \E fn \in Primitives, cx \in Centres, cy \in Centres, a \in Sizes, b \in Sizes,
          side \in Sides, angle_deg \in Angles :
           call = [NoCall EXCEPT !.fn = fn, !.at = "called",
                                 !.args = Args(cx, cy, a, b, side, angle_deg)]

NextPath == PathCall

SpecPath == InitPath /\ [][NextPath]_vars

\* generate_icon (lines 595-608) called on its own: lines 605-607, the
\* downsampled surface handed back to the caller
IconReturn ==
    /\ AtI("save")
    /\ call.fn = "generate_icon" /\ call.at = "called"
    /\ call' = [call EXCEPT !.image = downsample(surface), !.at = "returned"]
    /\ GotoI("done")
    /\ UNCHANGED <<lottieVars, swayVars, embedVars, jobs, svg, files, iconVars>>

\* the variant names generate_icon is called with
RequestedVariants == {"light", "dark", "tinted", "sepia", "Light", "", "default"}

\* generate_icon applied to every variant name within the bounds
InitIcon ==
    /\ pc = [lottie |-> "start", sway |-> "idle", svg |-> "start", icon |-> "start"]
    /\ LottieInit
    /\ SwayIdle
    /\ EmbedIdle
    /\ JobsIdle
    /\ svg = NoSvg
    /\ files = [f \in Paths |-> NoFile]
    /\ script = "v2" /\ vi = 1 /\ ctx = NewContext /\ surface = <<>> /\ step = 0
    /\ icons = [v \in {Variants[k] : k \in 1..Len(Variants)} |-> <<>>]
    /\ \E v \in RequestedVariants :
           call = [NoCall EXCEPT !.fn = "generate_icon", !.at = "called",
                                 !.args = [variant |-> v]]

NextIcon ==
    \/ IconCreate \/ IconBackground \/ IconPenguin \/ IconShadowPass
    \/ IconDrawPart \/ IconReturn

SpecIcon == InitIcon /\ [][NextIcon]_vars

\* the file names an asset may carry and the documents of the batch
MaxAssets == 2
AssetFiles == {"image_0.png", "image_1.webp", "image_2.JPG"}
AssetIds == <<"image_0", "image_1", "image_2">>
Documents ==
    UNION {[1..n -> AssetFiles] : n \in 0..MaxAssets}
Loaded(files_) ==
    [k \in DOMAIN files_ |-> Asset(AssetIds[k], files_[k], "images/", 0)]
Archives == {{}, {"images/image_0.png"}, {"images/image_0.png", "images/image_1.webp"}}

\* embed_images.py run over every batch within the bounds
InitEmbed ==
    /\ pc = [lottie |-> "start", sway |-> "idle", svg |-> "start", icon |-> "start"]
    /\ LottieInit
    /\ SwayIdle
    /\ call = NoCall
    /\ svg = NoSvg
    /\ files = [f \in Paths |-> NoFile]
    /\ IconInit
    /\ em_pc = "open" /\ em_name = 1 /\ em_asset = 1 /\ data = <<>>
    /\ printed = <<>>
    /\ \E d1 \in Documents, d2 \in Documents :
           extracted = [n \in {EmbedNames[k] : k \in 1..Len(EmbedNames)} |->
                           IF n = EmbedNames[1] THEN Loaded(d1) ELSE Loaded(d2)]
    /\ archive \in [{EmbedNames[k] : k \in 1..Len(EmbedNames)} -> Archives]
    /\ JobsIdle

NextEmbed == EmbedOpen \/ EmbedAsset \/ EmbedWrite

SpecEmbed == InitEmbed /\ [][NextEmbed]_vars

\* every export started at once, by either raster generator
InitParallel ==
    /\ pc = [lottie |-> "start", sway |-> "idle", svg |-> "start", icon |-> "start"]
    /\ LottieInit
    /\ SwayIdle
    /\ call = NoCall
    /\ EmbedIdle
    /\ svg = NoSvg
    /\ files = [f \in Paths |-> NoFile]
    /\ IconInit
    /\ jobs = [e \in Exports |-> [NoJob EXCEPT !.at = "start"]]

NextParallel ==
    \/ \E export \in Exports : ExportGenerate(export)
    \/ \E export \in Exports : ExportWrite(export)

SpecParallel == InitParallel /\ [][NextParallel]_vars

----------------------------------------------------------------------------
(* Reading a track the way a player does: before the first keyframe the    *)
(* value is the first keyframe's, from the last keyframe on it is the      *)
(* last keyframe's, at a keyframe it is that keyframe's, and between two   *)
(* keyframes the eased value lies between their two values.                *)

Min(x, y) == IF x <= y THEN x ELSE y
Max(x, y) == IF x <= y THEN y ELSE x

ValuesAt(k, f, c) ==
    IF f <= k[1].t THEN {k[1].s[c]}
    ELSE IF f >= k[Len(k)].t THEN {k[Len(k)].s[c]}
    ELSE LET j == CHOOSE j \in 1..(Len(k) - 1) : k[j].t <= f /\ f < k[j + 1].t
         IN  IF f = k[j].t THEN {k[j].s[c]}
             ELSE Min(k[j].s[c], k[j + 1].s[c])..Max(k[j].s[c], k[j + 1].s[c])

LottieDone == pc.lottie \in {"done", "written"}
Doc == lottie.layers
LayerNamed(nm) == Doc[CHOOSE j \in 1..Len(Doc) : Doc[j].nm = nm]
Props == {"o", "r", "p", "a", "s"}
Tracks(layer) == {prop \in Props : layer.ks[prop].a = 1}

\* 1e-3 px for positions; rotations and scales are compared exactly
Tol(prop) == IF prop \in {"p", "a"} THEN Unit \div 1000 ELSE 0

\* the static position a layer was built with
StaticPos(nm) ==
    BuildCalls[CHOOSE j \in 1..Len(BuildCalls) : BuildCalls[j].nm = nm].ks.p.k

\* a position track as <<time, x offset from the static position>> pairs
Offsets(nm, k) == [j \in 1..Len(k) |-> <<k[j].t, k[j].s[1] - StaticPos(nm)[1]>>]

Sign(x) == IF x > 0 THEN 1 ELSE IF x < 0 THEN 0 - 1 ELSE 0

(* C1: in the returned document every animated track of every layer has    *)
(* the same value at t = 0 as at t = TOTAL_FRAMES, within 1e-3.            *)
C1_LoopSeam ==
    LottieDone =>
        \A j \in 1..Len(Doc) : \A prop \in Tracks(Doc[j]) :
            LET k == Doc[j].ks[prop].k IN
            \A c \in 1..Len(k[1].s) :
                \A v0 \in ValuesAt(k, 0, c) : \A vT \in ValuesAt(k, TOTAL_FRAMES, c) :
                    v0 - vT <= Tol(prop) /\ vT - v0 <= Tol(prop)

(* C2: TOTAL_FRAMES is an integer multiple of the full sway period, twice  *)
(* the half-cycle between two alternating keyframes, of every position     *)
(* track in the document.                                                  *)
C2_DurationMultipleOfPeriod ==
    LottieDone =>
        \A j \in 1..Len(Doc) :
            LET k == Doc[j].ks.p.k IN
            Doc[j].ks.p.a = 1 => TOTAL_FRAMES % (2 * (k[2].t - k[1].t)) = 0

ScenarioB ==
    <<<<0, 2 * Unit>>, <<45, 0 - 2 * Unit>>, <<90, 2 * Unit>>, <<135, 0 - 2 * Unit>>,
      <<180, 2 * Unit>>, <<210, 2 * Unit>>>>

(* C3: the body sway (amplitude 2, half-cycle 45, duration 210) is exactly *)
(* the keyframes t=0 (+2), 45 (-2), 90 (+2), 135 (-2), 180 (+2) and one    *)
(* closing keyframe at t=210 holding +2, as x offsets from the layer's     *)
(* static position; y and z stay at the static position.                   *)
C3_ScenarioB ==
    /\ pc.lottie \notin {"start", "body_pos", "body_rot"} =>
           Offsets("Body", sway_transform.p.k) = ScenarioB
    /\ LottieDone =>
           \A j \in 1..Len(Doc) : Doc[j].nm # "Scarf" =>
               LET k == Doc[j].ks.p.k IN
               /\ Doc[j].ks.p.a = 1
               /\ Offsets(Doc[j].nm, k) = ScenarioB
               /\ \A n \in 1..Len(k) :
                      /\ k[n].s[2] = StaticPos(Doc[j].nm)[2]
                      /\ k[n].s[3] = StaticPos(Doc[j].nm)[3]
               /\ k[Len(k)].e = "hold"

C3_Witness ==
    /\ LottieDone
    /\ LayerNamed("Body").ks.p.a = 1
    /\ Len(LayerNamed("Body").ks.p.k) = 6
    /\ LayerNamed("Body").ks.p.k[6].t = TOTAL_FRAMES

SwayDone == pc.sway = "done"
CeilDiv(x, y) == (x + y - 1) \div y
Pow(k) == IF k % 2 = 0 THEN 1 ELSE 0 - 1

(* C4 as stated: a sway track has exactly ceil(T/H) + 2 keyframes.         *)
C4_CeilCount ==
    SwayDone => Len(sw_result) = CeilDiv(TOTAL_FRAMES, frames_per_half_cycle) + 2

(* C4 amended: for every amplitude A > 0 and whole half-cycle H > 0 a sway *)
(* track has exactly floor(T/H) + 2 keyframes: the alternating keyframes   *)
(* k = 0..floor(T/H) at t = k*H with value (-1)^k * A on the swayed axis   *)
(* and 0 on the other, then one final keyframe at t = T.                   *)
C4_FloorCount ==
    SwayDone =>
        LET n == TOTAL_FRAMES \div frames_per_half_cycle
            c == IF axis = "x" THEN 1 ELSE 2
        IN  /\ Len(sw_result) = n + 2
            /\ \A k \in 0..n :
                   /\ sw_result[k + 1].t = k * frames_per_half_cycle
                   /\ sw_result[k + 1].s[c] = Pow(k) * amplitude
                   /\ sw_result[k + 1].s[3 - c] = 0
            /\ sw_result[n + 2].t = TOTAL_FRAMES

C4_Witness ==
    /\ SwayDone
    /\ frames_per_half_cycle = 45
    /\ amplitude = 2
    /\ Len(sw_result) = 6

(* C5: in every sway-type track the closing keyframe at t = T holds the    *)
(* same value as the last alternating keyframe before it.                  *)
C5_ClosingHoldsLast ==
    LottieDone =>
        \A j \in 1..Len(Doc) :
            LET k == Doc[j].ks.p.k IN
            Doc[j].ks.p.a = 1 =>
                /\ k[Len(k)].t = TOTAL_FRAMES
                /\ k[Len(k)].s = k[Len(k) - 1].s

C7_ScarfLagsOpposite ==
    LottieDone =>
        LET sc == LayerNamed("Scarf").ks.p.k IN
        \A j \in 1..Len(Doc) : Doc[j].nm # "Scarf" =>
            LET bd == Doc[j].ks.p.k IN
            /\ Len(sc) = Len(bd)
            /\ sc[2].t - sc[1].t = bd[2].t - bd[1].t
            /\ \A k \in 1..(Len(bd) - 1) :
                   /\ sc[k].t = bd[k].t + 8
                   /\ Sign(sc[k].s[1] - StaticPos("Scarf")[1]) # 0
                   /\ Sign(sc[k].s[1] - StaticPos("Scarf")[1])
                        = 0 - Sign(bd[k].s[1] - StaticPos(Doc[j].nm)[1])

C7_Witness ==
    /\ LottieDone
    /\ LayerNamed("Scarf").ks.p.k[1].t = 8
    /\ LayerNamed("Scarf").ks.p.k[5].t = 188
    /\ LayerNamed("Body").ks.p.k[5].t = 180

----------------------------------------------------------------------------
(* The raster image as alpha levels.  A pixel is covered by the surface-   *)
(* wide paints and by any subset of the part paints, in paint order; an    *)
(* "over" paint blends with what is below, a "replace" paint overwrites,   *)
(* and the scaling filter mixes neighbouring pixels.  An antialiased paint *)
(* covers the pixels on its edge partially.                                *)

Over(dst, src) == src + (dst * (Opaque - src)) \div Opaque

Blend(e, dst, src) == IF e.mode = "over" THEN Over(dst, src) ELSE src

Coverages(e, edges) ==
    IF edges /\ e.part # "surface" /\ e.antialias # "none"
    THEN {Opaque, Opaque \div 2} ELSE {Opaque}

RECURSIVE LevelsFrom(_, _, _)
LevelsFrom(levels, log, edges) ==
    IF log = <<>> THEN levels
    ELSE LET e == Head(log)
             hit == {Blend(e, d, (a * c) \div Opaque) :
                        d \in levels, a \in e.source.alphas, c \in Coverages(e, edges)}
             next == IF e.mode = "filter"
                     THEN IF edges
                          THEN levels \cup {(x + y) \div 2 : x \in levels, y \in levels}
                          ELSE levels
                     ELSE IF e.part = "surface" THEN hit ELSE levels \cup hit
         IN  LevelsFrom(next, Tail(log), edges)

\* a new surface is fully transparent
AlphaLevels(log) == LevelsFrom({0}, log, TRUE)
\* the pixels that every paint covers wholly or not at all
InteriorLevels(log) == LevelsFrom({0}, log, FALSE)

TintedDone == Len(icons["tinted"]) > 0
PartPaints(log) == {n \in 1..Len(log) : log[n].part # "surface"}
BackgroundPaints(log) == {n \in 1..Len(log) : log[n].by = "background"}

OneOpaqueColour(log) ==
    /\ \E rgb \in {WHITE} \cup {log[n].source.rgb : n \in PartPaints(log)} :
           \A n \in PartPaints(log) : log[n].source = Solid(rgb, Opaque)
    /\ \A n \in BackgroundPaints(log) : log[n].source = Solid(<<0, 0, 0>>, 0)

PartOf(name) ==
    CASE name \in {"left_foot", "right_foot", "feet", "Feet"} -> "feet"
      [] name \in {"body", "Body"} -> "body"
      [] name \in {"belly", "Belly"} -> "belly"
      [] name \in {"left_wing", "right_wing", "Left Wing", "Right Wing"} -> "wings"
      [] name \in {"scarf", "Scarf"} -> "scarf"
      [] name \in {"head", "Head"} -> "head"
      [] name \in {"face_patch", "Face Patch"} -> "face_patch"
      [] name \in {"left_eye", "right_eye", "eyes", "Left Eye", "Right Eye"} -> "eyes"
      [] name \in {"beak", "Beak"} -> "beak"
      [] name \in {"blush_left", "blush_right", "blush", "Blush"} -> "blush"
      [] OTHER -> name

RECURSIVE FirstOccurrences(_, _)
FirstOccurrences(seen, names) ==
    IF names = <<>> THEN <<>>
    ELSE IF Head(names) \in seen THEN FirstOccurrences(seen, Tail(names))
    ELSE <<Head(names)>> \o FirstOccurrences(seen \cup {Head(names)}, Tail(names))

PartOrder(names) == FirstOccurrences({}, [n \in 1..Len(names) |-> PartOf(names[n])])

RasterPartPaints(log) == SelectSeq(log, LAMBDA e : e.by = "part")
RasterOrder(log) ==
    LET ps == RasterPartPaints(log) IN PartOrder([n \in 1..Len(ps) |-> ps[n].part])
SvgOrder == PartOrder([n \in 1..Len(svg.groups) |-> svg.groups[n].id])
LottieOrder == PartOrder([n \in 1..Len(Doc) |-> Doc[Len(Doc) + 1 - n].nm])

AllBackendsDone ==
    /\ LottieDone
    /\ pc.svg \in {"generated", "written"}
    /\ script = "v2" /\ Len(icons["light"]) > 0 /\ Len(icons["dark"]) > 0

(* C9: the raster backend's paint order, the vector document's group order *)
(* and the reverse of the animation document's layer array list the shared *)
(* parts in the same back-to-front order.                                  *)
C9_SamePaintOrder ==
    AllBackendsDone =>
        /\ RasterOrder(icons["light"]) = SvgOrder
        /\ RasterOrder(icons["dark"]) = SvgOrder
        /\ LottieOrder = SvgOrder

HeadParts == {"head", "face_patch", "eyes", "beak", "blush"}

\* translate(a, b); rotate(d); translate(-a, -b) is a rotation by d about (a, b)
IsPivotRotation(ctm, deg, x, y) ==
    /\ Len(ctm) = 3
    /\ ctm[1] = [op |-> "translate", a |-> x, b |-> y]
    /\ ctm[2] = [op |-> "rotate", a |-> deg, b |-> 0]
    /\ ctm[3] = [op |-> "translate", a |-> 0 - x, b |-> 0 - y]

RasterPivotOk(log) ==
    \A n \in 1..Len(log) :
        (log[n].by = "part" /\ PartOf(log[n].part) \in HeadParts) =>
            IsPivotRotation(log[n].ctm, 3, icon_cx, icon_cy - (icon_psize * 220) \div 1000)

SvgPivotOk ==
    \A n \in 1..Len(svg.groups) :
        PartOf(svg.groups[n].id) \in HeadParts =>
            svg.groups[n].transform =
                [rotate |-> TRUE, angle |-> 3, cx |-> SVG_CX,
                 cy |-> SVG_CY - (SVG_PSIZE * Unit * 220) \div 1000]

LottiePivotOk ==
    \A n \in 1..Len(Doc) :
        PartOf(Doc[n].nm) \in HeadParts =>
            /\ Doc[n].ks.r = Static(3)
            /\ Doc[n].ks.a.a = 0
            /\ Doc[n].ks.a.k[1] = CX
            /\ Doc[n].ks.a.k[2] = CY - (PSIZE * Unit * 220) \div 1000

(* C10: the 3-degree tilt of the head-attached parts is a rotation about   *)
(* the head centre (cx, cy - 0.22 x reference size) in all three backends. *)
C10_SamePivot ==
    AllBackendsDone =>
        /\ RasterPivotOk(icons["light"])
        /\ RasterPivotOk(icons["dark"])
        /\ SvgPivotOk
        /\ LottiePivotOk

----------------------------------------------------------------------------
(* Proportions.  What each generator computes a part's geometry from, as   *)
(* fractions of its reference size in thousandths: half-width w and        *)
(* half-height h (or radius), offset (dx, dy) of the part's centre from    *)
(* the character centre (dx is the spacing of a left/right pair), and k,   *)
(* the part's extra factor (head width factor, right-eye factor, in        *)
(* thousandths; wing angle in degrees).                                    *)

Dims(w, h, dx, dy, k) == [w |-> w, h |-> h, dx |-> dx, dy |-> dy, k |-> k]

SharedParts ==
    {"feet", "body", "belly", "wings", "scarf", "head", "face_patch", "eyes",
     "beak", "blush"}

\* generate_app_icon_v2.py: psize * fraction in draw_body_shape .. draw_feet
icon_dims(part) ==
    CASE part = "body" -> Dims(440, 480, 0, 80, 0)
      [] part = "belly" -> Dims(300, 380, 0, 140, 0)
      [] part = "head" -> Dims(280, 280, 0, 0 - 220, 1080)
      [] part = "face_patch" -> Dims(200, 170, 0, 0 - 220 + 40, 0)
      [] part = "eyes" -> Dims(42, 42, 95, 0 - 220 + 10, 1050)
      [] part = "beak" -> Dims(42, 35, 0, 0 - 220 + 95, 0)
      [] part = "blush" -> Dims(35, 35, 145, 0 - 220 + 40, 0)
      [] part = "wings" -> Dims(100, 220, 370, 20, 15)
      [] part = "scarf" -> Dims(300, 35, 0, 0 - 65, 0)
      [] part = "feet" -> Dims(65, 25, 80, 500, 0)

\* generate_nudgy_svg.py: p(fraction) in body_path .. blush_elements
svg_dims(part) ==
    CASE part = "body" -> Dims(440, 480, 0, 80, 0)
      [] part = "belly" -> Dims(300, 380, 0, 140, 0)
      [] part = "head" -> Dims(280, 280, 0, 0 - 220, 1080)
      [] part = "face_patch" -> Dims(200, 170, 0, 0 - 220 + 40, 0)
      [] part = "eyes" -> Dims(42, 42, 95, 0 - 220 + 10, 1050)
      [] part = "beak" -> Dims(42, 35, 0, 0 - 220 + 95, 0)
      [] part = "wings" -> Dims(100, 220, 370, 20, 15)
      [] part = "scarf" -> Dims(300, 35, 0, 0 - 65, 0)
      [] part = "feet" -> Dims(65, 25, 80, 500, 0)
      [] part = "blush" -> Dims(35, 35, 145, 0 - 220 + 40, 0)

\* generate_nudgy_lottie_v1.py: p(fraction) in build_feet_layer ..
\* build_blush_layer, wing_path and scarf_path
lottie_dims(part) ==
    CASE part = "feet" -> Dims(65, 25, 80, 500, 0)
      [] part = "body" -> Dims(440, 480, 0, 80, 0)
      [] part = "belly" -> Dims(300, 380, 0, 140, 0)
      [] part = "wings" -> Dims(100, 220, 370, 20, 15)
      [] part = "scarf" -> Dims(300, 35, 0, 0 - 65, 0)
      [] part = "head" -> Dims(280, 280, 0, 0 - 220, 1080)
      [] part = "face_patch" -> Dims(200, 170, 0, 0 - 220 + 40, 0)
      [] part = "eyes" -> Dims(42, 42, 95, 0 - 220 + 10, 1050)
      [] part = "beak" -> Dims(42, 35, 0, 0 - 220 + 95, 0)
      [] part = "blush" -> Dims(35, 35, 145, 0 - 220 + 40, 0)

\* the anchor points of an ellipse, as thousandths of (w, h) from its centre
Cardinal == {<<0, 0 - 1000>>, <<1000, 0>>, <<0, 1000>>, <<0 - 1000, 0>>}

\* The anchor points each generator builds a part's outline through, as
\* thousandths of (w, h) from the part's centre; for the wings in the
\* flipper's own frame (side = +1), before the rotation.

\* generate_app_icon_v2.py: move_to and the end points of curve_to
icon_anchors(part) ==
    CASE part = "body" ->
             {<<0, 0 - 850>>, <<950, 500>>, <<0, 950>>, <<0 - 950, 500>>}
      [] part = "wings" -> {<<0, 0 - 500>>, <<600, 500>>}
      [] part = "scarf" ->
             {<<0 - 1000, 0 - 1000>>, <<1000, 0 - 1000>>, <<300, 2000>>,
              <<550, 6500>>, <<150, 2000>>}
      [] part = "beak" -> {<<0, 1000>>, <<0 - 800, 0 - 500>>, <<800, 0 - 500>>}
      [] OTHER -> Cardinal

\* generate_nudgy_svg.py: M and the end points of C in the path strings
svg_anchors(part) ==
    CASE part = "body" ->
             {<<0, 0 - 850>>, <<950, 500>>, <<0, 950>>, <<0 - 950, 500>>}
      [] part = "beak" -> {<<0, 1000>>, <<0 - 800, 0 - 500>>, <<800, 0 - 500>>}
      [] part = "wings" -> {<<0, 0 - 500>>, <<600, 500>>}
      [] part = "scarf" ->
             {<<0 - 1000, 0 - 1000>>, <<1000, 0 - 1000>>, <<300, 2000>>,
              <<550, 6500>>, <<150, 2000>>}
      [] OTHER -> Cardinal

\* generate_nudgy_lottie_v1.py: the vertices of egg_shape_path, wing_path,
\* scarf_path and rounded_triangle_path
lottie_anchors(part) ==
    CASE part = "body" ->
             {<<0, 0 - 850>>, <<950, 0 - 100>>, <<750, 700>>, <<0, 950>>,
              <<0 - 750, 700>>, <<0 - 950, 0 - 100>>}
      [] part = "wings" -> {<<0, 0 - 500>>, <<900, 0>>, <<400, 500>>, <<0 - 100, 0>>}
      [] part = "scarf" ->
             {<<0 - 1000, 0 - 1000>>, <<0, 0 - 1800>>, <<1000, 0 - 1000>>,
              <<500, 2000>>, <<650, 5000>>, <<250, 3000>>, <<0 - 300, 2000>>}
      [] part = "beak" -> {<<0, 1000>>, <<0 - 800, 0 - 500>>, <<800, 0 - 500>>}
      [] OTHER -> Cardinal

\* the parts each finished artifact holds
RasterParts(log) == {PartOf(log[n].part) : n \in {m \in 1..Len(log) : log[m].by = "part"}}
SvgParts == {PartOf(svg.groups[n].id) : n \in 1..Len(svg.groups)}
LottieParts == {PartOf(Doc[n].nm) : n \in 1..Len(Doc)}

(* C11: every part that the raster, vector and animation artifacts share   *)
(* is built from the same fractions of the reference size in all three     *)
(* generators: the same sizes and offsets and the same outline anchors.    *)
C11_SameProportions ==
    AllBackendsDone =>
        /\ RasterParts(icons["light"]) = SharedParts
        /\ SvgParts = SharedParts
        /\ LottieParts = SharedParts
        /\ \A part \in SharedParts :
               /\ icon_dims(part) = svg_dims(part)
               /\ svg_dims(part) = lottie_dims(part)
               /\ icon_anchors(part) = svg_anchors(part)
               /\ svg_anchors(part) = lottie_anchors(part)

----------------------------------------------------------------------------
(* Reading a returned path.                                                *)

PathReturned(fn) == call.at = "returned" /\ call.fn = fn
Abs(x) == IF x < 0 THEN 0 - x ELSE x
Neg(pt) == <<0 - pt[1], 0 - pt[2]>>
Minus(pt, qt) == <<pt[1] - qt[1], pt[2] - qt[2]>>
Plus(pt, qt) == <<pt[1] + qt[1], pt[2] + qt[2]>>
Succ(n, len) == IF n = len THEN 1 ELSE n + 1
Pred(n, len) == IF n = 1 THEN len ELSE n - 1

\* the control points of a path given by anchors and relative tangents
ControlPoints(path) ==
    {Plus(path.v[n], path.o[n]) : n \in 1..Len(path.v)}
        \cup {Plus(path.v[n], path.i[n]) : n \in 1..Len(path.v)}

\* a curve lies in the convex hull of its anchors and control points
InBox(pts, x1, x2, y1, y2) ==
    \A pt \in pts : x1 <= pt[1] /\ pt[1] <= x2 /\ y1 <= pt[2] /\ pt[2] <= y2

\* the tangents of an SVG path string at anchor n, in hundredths of a pixel
SvgOut(path, n) == Minus(path.c1[n], path.v[n])
SvgIn(path, n) == Minus(path.c2[Pred(n, Len(path.v))], path.v[n])

PositiveSizes == call.args.a > 0 /\ call.args.b > 0

\* the four cardinal points of the called ellipse, in Unit * Unit per pixel
CardinalPoints ==
    LET a == call.args IN
    << <<a.cx * Unit, (a.cy - a.b) * Unit>>, <<(a.cx + a.a) * Unit, a.cy * Unit>>,
       <<a.cx * Unit, (a.cy + a.b) * Unit>>, <<(a.cx - a.a) * Unit, a.cy * Unit>> >>

\* the tangent lengths radius x kappa, along x at top and bottom and along
\* y at right and left
AxisTangents ==
    << <<KappaMagnitude(call.args.a), 0>>, <<0, KappaMagnitude(call.args.b)>>,
       <<KappaMagnitude(call.args.a), 0>>, <<0, KappaMagnitude(call.args.b)>> >>

\* ellipse_bezier_path: closed, four anchors at the cardinal points, the
\* curve inside their box, tangents opposite and of length radius x kappa
LottieEllipseExact ==
    (PathReturned("ellipse_bezier_path") /\ PositiveSizes) =>
        LET path == call.path
            a == call.args
        IN  /\ path.c /\ Len(path.v) = 4 /\ Len(path.i) = 4 /\ Len(path.o) = 4
            /\ path.v = CardinalPoints
            /\ InBox(ControlPoints(path), (a.cx - a.a) * Unit, (a.cx + a.a) * Unit,
                     (a.cy - a.b) * Unit, (a.cy + a.b) * Unit)
            /\ \A n \in 1..4 :
                   /\ path.i[n] = Neg(path.o[n])
                   /\ <<Abs(path.o[n][1]), Abs(path.o[n][2])>> = AxisTangents[n]

PerHundredth == (Unit * Unit) \div 100

\* ellipse_path prints exactly the cardinal points and exact tangents
SvgEllipseExact ==
    (PathReturned("ellipse_path") /\ PositiveSizes) =>
        LET path == call.path IN
        /\ path.c /\ Len(path.v) = 4
        /\ \A n \in 1..4 :
               /\ path.v[n][1] * PerHundredth = CardinalPoints[n][1]
               /\ path.v[n][2] * PerHundredth = CardinalPoints[n][2]
               /\ SvgIn(path, n) = Neg(SvgOut(path, n))
               /\ Abs(SvgOut(path, n)[1]) * PerHundredth = AxisTangents[n][1]
               /\ Abs(SvgOut(path, n)[2]) * PerHundredth = AxisTangents[n][2]

\* ellipse_path prints the cardinal points and the tangents to the nearest
\* hundredth of a pixel
SvgEllipseRounded ==
    (PathReturned("ellipse_path") /\ PositiveSizes) =>
        LET path == call.path IN
        /\ path.c /\ Len(path.v) = 4 /\ Len(path.c1) = 4 /\ Len(path.c2) = 4
        /\ \A n \in 1..4 : \A c \in 1..2 :
               /\ 2 * Abs(path.v[n][c] * PerHundredth - CardinalPoints[n][c])
                      <= PerHundredth
               /\ Abs(SvgIn(path, n)[c] + SvgOut(path, n)[c]) <= 1
               /\ Abs(Abs(SvgOut(path, n)[c]) * PerHundredth - AxisTangents[n][c])
                      <= PerHundredth
        /\ InBox({path.c1[n] : n \in 1..4} \cup {path.c2[n] : n \in 1..4},
                 path.v[4][1], path.v[2][1], path.v[1][2], path.v[3][2])

(* C12 as stated: an ellipse with rx, ry > 0 is a closed path of exactly 4 *)
(* anchors at the cardinal points, with bounding box exactly [cx-rx,cx+rx] *)
(* x [cy-ry,cy+ry], and at every anchor the incoming tangent is the exact  *)
(* negation of the outgoing one, of length radius x kappa along its axis,  *)
(* in both ellipse primitives.                                             *)
C12_EllipseExact == LottieEllipseExact /\ SvgEllipseExact

(* C12 amended: the animation generator's ellipse is as stated, exactly;   *)
(* the vector generator's ellipse prints every coordinate rounded to two   *)
(* decimals, so its anchors, bounding box and tangents are the stated ones *)
(* to within 0.01 px.                                                      *)
C12_EllipseToPrintedPrecision == LottieEllipseExact /\ SvgEllipseRounded

C12_Witness ==
    /\ PathReturned("ellipse_bezier_path")
    /\ call.args = Args(100 * Unit, 100 * Unit, 50 * Unit, 30 * Unit, 1, 0)
    /\ call.path.v[4][1] = 50 * Unit * Unit
    /\ call.path.v[2][1] = 150 * Unit * Unit
    /\ call.path.v[1][2] = 70 * Unit * Unit
    /\ call.path.v[3][2] = 130 * Unit * Unit

\* the number of vertices of each primitive of the animation generator
VertexCount ==
    [fn \in {"ellipse_bezier_path", "egg_shape_path", "rounded_triangle_path",
             "wing_path", "scarf_path"} |->
        CASE fn = "ellipse_bezier_path" -> 4
          [] fn = "egg_shape_path" -> 6
          [] fn = "rounded_triangle_path" -> 3
          [] fn = "wing_path" -> 4
          [] fn = "scarf_path" -> 7]

(* C13: each of the five path primitives (ellipse, egg, rounded triangle,  *)
(* flipper, scarf) returns a closed path whose anchor, incoming-tangent    *)
(* and outgoing-tangent lists have the same length n = 4, 6, 3, 4 and 7,   *)
(* so every vertex has both tangents.                                      *)
C13_UniformPaths ==
    \A fn \in DOMAIN VertexCount :
        PathReturned(fn) =>
            /\ call.path.c
            /\ Len(call.path.v) = VertexCount[fn]
            /\ Len(call.path.i) = VertexCount[fn]
            /\ Len(call.path.o) = VertexCount[fn]
            /\ \A n \in 1..Len(call.path.v) :
                   /\ Len(call.path.v[n]) = 2
                   /\ Len(call.path.i[n]) = 2
                   /\ Len(call.path.o[n]) = 2

C13_Witness ==
    /\ PathReturned("scarf_path")
    /\ Len(call.path.v) = 7
    /\ call.path.i[7] # call.path.o[7]

\* a flipper of the animation generator reflected across the vertical line
\* x = cx: anchors (x, y) to (2cx - x, y), tangents (tx, ty) to (-tx, ty);
\* anchors are held in WingScale per model unit
MirrorLottie(path, cx) ==
    [c |-> path.c,
     v |-> [n \in DOMAIN path.v |->
               <<2 * cx * WingScale - path.v[n][1], path.v[n][2]>>],
     i |-> [n \in DOMAIN path.i |-> <<0 - path.i[n][1], path.i[n][2]>>],
     o |-> [n \in DOMAIN path.o |-> <<0 - path.o[n][1], path.o[n][2]>>]]

\* the same reflection of a printed path, its points absolute and in
\* hundredths of a pixel
MirrorPoint(pt, cx) == <<(2 * cx) \div (Unit \div 100) - pt[1], pt[2]>>
MirrorSvg(path, cx) ==
    [c |-> path.c,
     v |-> [n \in DOMAIN path.v |-> MirrorPoint(path.v[n], cx)],
     c1 |-> [n \in DOMAIN path.c1 |-> MirrorPoint(path.c1[n], cx)],
     c2 |-> [n \in DOMAIN path.c2 |-> MirrorPoint(path.c2[n], cx)]]

\* the tangents of a printed path: control point minus anchor
SvgTangents(path) ==
    [n \in DOMAIN path.v |->
        <<path.c1[n][1] - path.v[n][1], path.c1[n][2] - path.v[n][2]>>]

(* C14: for every width, height and angle the flipper built with side = -1  *)
(* is the mirror image across x = cx of the flipper built with side = +1:   *)
(* vertex by vertex the anchor (x, y) maps to (2cx - x, y) and each tangent *)
(* (tx, ty) maps to (-tx, ty); this holds of the animation generator's      *)
(* wing_path and of the vector generator's printed wing_path.               *)
C14_FlipperMirror ==
    /\ PathReturned("wing_path") =>
           wing_path(call.args.cx, call.args.cy, 0 - call.args.side,
                     call.args.a, call.args.b, call.args.angle_deg)
               = MirrorLottie(call.path, call.args.cx)
    /\ PathReturned("svg_wing_path") =>
           /\ svg_wing_path(0 - call.args.side) = MirrorSvg(call.path, SVG_CX)
           /\ \A n \in DOMAIN call.path.v :
                  SvgTangents(svg_wing_path(0 - call.args.side))[n]
                      = <<0 - SvgTangents(call.path)[n][1],
                          SvgTangents(call.path)[n][2]>>

\* a rotated flipper of positive size, whose two sides differ
C14_Witness ==
    /\ PathReturned("wing_path")
    /\ call.args.side = 1
    /\ call.args.a > 0 /\ call.args.b > 0
    /\ call.args.angle_deg = 15
    /\ call.path # MirrorLottie(call.path, call.args.cx)

C14_WitnessSvg ==
    /\ PathReturned("svg_wing_path")
    /\ call.path # MirrorSvg(call.path, SVG_CX)

\* the plain colours the vector artwork fills shapes with
SvgColours == {"#007AFF", "#FFFFFF", "#0A0A0E", "#FF6B8A"}
Url(id) == "url(#" \o id \o ")"
SvgGenerated == pc.svg # "start"
\* the fills of the document's shapes, and those that are not plain colours
SvgFills ==
    UNION {{svg.groups[g].fills[n] : n \in DOMAIN svg.groups[g].fills} :
               g \in DOMAIN svg.groups}
GradientFills == SvgFills \ SvgColours
DeclaredIds == {svg.gradients[n].id : n \in DOMAIN svg.gradients}

(* C15: in the generated vector document every gradient is declared exactly *)
(* once, with a unique id, inside the one definitions block; no gradient    *)
(* element sits inside a shape or a group; every gradient fill of a shape   *)
(* is a reference by id to a declared gradient; and every declared gradient *)
(* is referenced by at least one shape.                                     *)
C15_GradientsDeclaredOnce ==
    SvgGenerated =>
        /\ \A m, n \in DOMAIN svg.gradients :
               svg.gradients[m].id = svg.gradients[n].id => m = n
        /\ \A n \in DOMAIN svg.gradients : svg.gradients[n].parent = "defs"
        /\ \A n \in DOMAIN svg.defs : svg.defs[n] = svg.gradients[n].id
        /\ Len(svg.defs) = Len(svg.gradients)
        /\ \A f \in GradientFills : \E id \in DeclaredIds : f = Url(id)
        /\ \A id \in DeclaredIds : Url(id) \in GradientFills

C15_Witness ==
    /\ SvgGenerated
    /\ Cardinality(DeclaredIds) = 7
    /\ Cardinality(GradientFills) = 7
    /\ SvgFills \cap SvgColours # {}

\* a primitive that takes sizes has returned from a call with a size that
\* is zero or negative
NonPositiveSize ==
    /\ call.at = "returned"
    /\ call.fn \in Sized
    /\ (call.args.a <= 0 \/ call.args.b <= 0)

(* C16: every path primitive called with a zero or negative size parameter *)
(* fails with an InvalidGeometry error and returns no path.                *)
C16_InvalidGeometry ==
    NonPositiveSize => call.raised = "InvalidGeometry" /\ call.path = NoPath

\* an ellipse of zero width is returned as a path all the same
C16_Witness ==
    /\ PathReturned("ellipse_bezier_path")
    /\ call.args.a = 0 /\ call.args.b = 30 * Unit
    /\ call.raised = ""
    /\ call.path.c
    /\ Len(call.path.v) = 4

RecognizedVariants == {"light", "dark", "tinted"}
IconRequested(v) == call.fn = "generate_icon" /\ call.args.variant = v
Unrecognized == call.fn = "generate_icon" /\ call.args.variant \notin RecognizedVariants

(* C17: generate_icon called with a variant name other than light, dark or *)
(* tinted fails with UnsupportedVariant and produces no image: nothing is  *)
(* drawn for it and nothing is returned.                                   *)
C17_UnsupportedVariant ==
    Unrecognized =>
        /\ surface = <<>>
        /\ call.image = <<>>
        /\ call.at = "returned" => call.raised = "UnsupportedVariant"

\* generate_icon("sepia") returns the light icon: the light background and
\* the full penguin
C17_Witness ==
    /\ IconRequested("sepia")
    /\ call.at = "returned"
    /\ call.raised = ""
    /\ \E n \in DOMAIN call.image :
           /\ call.image[n].by = "background"
           /\ call.image[n].source.kind = "solid"
           /\ call.image[n].source.rgb = BG_LIGHT
    /\ \E n \in DOMAIN call.image :
           call.image[n].by = "part" /\ call.image[n].part = "beak"

\* the animation of the running pass, and the animations whose pass is over
EmbedName == EmbedNames[em_name]
EmbedRunning == em_pc \in {"assets", "write"}
EmbedSaved ==
    {EmbedNames[k] : k \in {j \in 1..Len(EmbedNames) :
                               j < em_name \/ em_pc = "done"}}
Lookup(asset) == "images/" \o asset.p
Reported(name, asset) ==
    \E n \in DOMAIN printed :
        /\ printed[n].line = "Image not found"
        /\ printed[n].name = name
        /\ printed[n].id = asset.id
        /\ printed[n].key = Lookup(asset)
Listed(name) == {n \in DOMAIN printed : printed[n].line = "Asset" /\ printed[n].name = name}
\* an asset of the running pass whose image the archive does not hold; until
\* the pass writes, the file on disk still holds the asset as it was loaded
Mismatch(k) ==
    /\ EmbedRunning
    /\ k \in DOMAIN data /\ k < em_asset
    /\ Lookup(extracted[EmbedName][k]) \notin archive[EmbedName]

(* C18: when an asset refers to an image the archive does not hold, the    *)
(* failed lookup key is printed and the asset's fields u, p and e stay as  *)
(* loaded; the pass still handles every other asset of the animation       *)
(* (those whose image is present are embedded), every animation of the     *)
(* batch is still handled, and each output document is still written with  *)
(* the assets as the pass left them.                                       *)
C18_MismatchReportedAndSkipped ==
    /\ \A k \in DOMAIN data :
           Mismatch(k) =>
               /\ Reported(EmbedName, data[k])
               /\ data[k].u = extracted[EmbedName][k].u
               /\ data[k].p = extracted[EmbedName][k].p
               /\ data[k].e = extracted[EmbedName][k].e
    /\ EmbedRunning =>
           /\ Len(data) = Len(extracted[EmbedName])
           /\ \A k \in DOMAIN data :
                  (k < em_asset /\ ~Mismatch(k)) =>
                      data[k].e = 1 /\ data[k].u = "" /\ data[k].p # extracted[EmbedName][k].p
    /\ em_pc = "write" => em_asset = Len(data) + 1
    /\ \A name \in EmbedSaved :
           /\ \E n \in DOMAIN printed :
                  printed[n].line = "Saved" /\ printed[n].name = name
           /\ Cardinality(Listed(name)) = Len(extracted[name])
           /\ \A k \in DOMAIN extracted[name] :
                  \/ extracted[name][k].e = 1
                  \/ /\ Reported(name, extracted[name][k])
                     /\ extracted[name][k].u = "images/"
                     /\ extracted[name][k].e = 0
    /\ (em_pc = "done" \/ (em_pc = "open" /\ em_name > 1)) =>
           extracted[EmbedNames[IF em_pc = "done" THEN em_name ELSE em_name - 1]] = data
    /\ em_pc = "done" => EmbedSaved = {EmbedNames[k] : k \in 1..Len(EmbedNames)}

\* the batch is over; the first asset of the first animation had no image
\* and is written as it was, the asset after it and an asset of the second
\* animation are embedded
C18_Witness ==
    /\ em_pc = "done"
    /\ Len(extracted["pudgy"]) = 2
    /\ extracted["pudgy"][1] = Asset("image_0", "image_1.webp", "images/", 0)
    /\ Reported("pudgy", extracted["pudgy"][1])
    /\ extracted["pudgy"][2].e = 1
    /\ Len(extracted["sleeping_penguin"]) > 0
    /\ extracted["sleeping_penguin"][1].p = "data:image/webp;base64,b64(images/image_1.webp)"

(* C19: once a layer of the animation export has been constructed, neither *)
(* it nor its transform nor its keyframe tracks is modified again: every   *)
(* step of generate_lottie leaves every layer already built as it was.     *)
C19_BuiltLayersImmutable ==
    [][\A nm \in DOMAIN built : nm \in DOMAIN built' /\ built'[nm] = built[nm]]_vars

\* the document holds a scarf whose transform is no longer the one
\* build_scarf_layer gave it, and layers whose position track and index
\* were replaced after construction
C19_Witness ==
    /\ LottieDone
    /\ built["Scarf"].ks # build_scarf_layer.ks
    /\ built["Body"].ks.p # build_body_layer.ks.p
    /\ built["Body"].ind # build_body_layer.ind

\* the step-by-step programs and the calls return the same values
GenerateAgrees ==
    /\ LottieDone => lottie = generate_lottie
    /\ \A v \in RasterExports :
           Len(icons[v]) > 0 =>
               icons[v] = IF script = "v2" THEN generate_icon(v) ELSE generate_v1_icon(v)

Written(export) == jobs[export].at = "written"

(* C20: the exports of the raster variants (light, dark, tinted), of the   *)
(* manifest, of the vector document and of the animation write to pairwise *)
(* distinct files, and under every interleaving of their steps each file   *)
(* holds, from the moment its export has written it, the value that export *)
(* yields when run alone; no file is written by any other export.          *)
C20_ParallelSafe ==
    /\ \A e1, e2 \in Exports : e1 # e2 => PathOf(e1) # PathOf(e2)
    /\ \A e \in Exports :
           Written(e) => files[PathOf(e)] = File(e, ExportValue(e))
    /\ \A f \in Paths :
           files[f].exists =>
               \E e \in Exports : PathOf(e) = f /\ Written(e) /\ files[f].by = e
    /\ \A e \in Exports : ~Written(e) => ~files[PathOf(e)].exists

\* every export has written; the three icons differ from one another
C20_Witness ==
    /\ \A e \in Exports : Written(e)
    /\ script = "v2"
    /\ files[IconFile("light")].content # files[IconFile("dark")].content
    /\ files[IconFile("tinted")].content # files[IconFile("dark")].content
    /\ files[LottiePath].content.layers # <<>>

\* the egg returned for positive half-sizes
EggReturned ==
    /\ PathReturned("egg_shape_path")
    /\ call.args.a > 0 /\ call.args.b > 0
\* the anchor that faces anchor n across the vertical axis: 1 and 4 lie on
\* the axis, 2 faces 6 and 3 faces 5
Facing(n) == IF n = 1 THEN 1 ELSE 8 - n
EggMirrored ==
    \A n \in 1..6 :
        /\ call.path.v[Facing(n)][1] = 2 * call.args.cx * Unit - call.path.v[n][1]
        /\ call.path.v[Facing(n)][2] = call.path.v[n][2]
UpperWidth == call.path.v[2][1] - call.path.v[6][1]
LowerWidth == call.path.v[3][1] - call.path.v[5][1]

(* C21: egg_shape_path returns 6 vertices whose anchors are mirror images   *)
(* of one another about the vertical axis through the centre, and the egg   *)
(* is narrower at the top than at the bottom: the width between the upper   *)
(* side anchors is smaller than the width between the lower side anchors.   *)
C21_EggNarrowerAtTop ==
    EggReturned =>
        /\ Len(call.path.v) = 6
        /\ EggMirrored
        /\ UpperWidth < LowerWidth

\* an egg of half-width 30 and half-height 50: mirrored, six anchors, and
\* 57 wide between the upper side anchors against 45 between the lower
C21_Witness ==
    /\ EggReturned
    /\ call.args.a = 30 * Unit /\ call.args.b = 50 * Unit
    /\ Len(call.path.v) = 6
    /\ EggMirrored
    /\ UpperWidth = 57 * Unit * Unit
    /\ LowerWidth = 45 * Unit * Unit
    /\ call.path.v[2][2] < call.path.v[3][2]

\* the flipper in its local frame, before rotation (lines 165-183): anchors
\* and tangents in twentieths of a model unit
WingLocalV(side, w, h) ==
    << <<0, 0 - h * 10>>, <<side * w * 18, 0>>, <<side * w * 8, h * 10>>,
       <<0 - side * w * 2, 0>> >>
WingLocalI(side, w, h) ==
    << <<0 - side * w * 4, 0 - h * 2>>, <<0, 0 - h * 5>>, <<side * w * 6, 0>>,
       <<0, h * 4>> >>
WingLocalO(side, w, h) ==
    << <<side * w * 6, 0>>, <<0, h * 5>>, <<0 - side * w * 4, 0>>,
       <<0, 0 - h * 4>> >>
\* the pivot (lines 152-154), in WingScale per model unit
WingPivot(args) ==
    <<(args.cx + args.side * p(370)) * WingScale,
      (args.cy + p(20)) * WingScale - args.b * 8 * 100>>
\* a vector turned by side x angle_deg, its length in hundredths of the input
Turned(pt, side, deg) ==
    <<pt[1] * Cos100(deg) - pt[2] * side * Sin100(deg),
      pt[1] * side * Sin100(deg) + pt[2] * Cos100(deg)>>
Shifted(pt, by) == <<pt[1] + by[1], pt[2] + by[2]>>
WingReturned == PathReturned("wing_path")

(* C22: in the flipper path the anchors are the local anchors turned by    *)
(* side x angle about the pivot, the tangents are the local tangents       *)
(* turned by the same angle and not shifted (they do not depend on where   *)
(* the flipper is placed), the path has 4 vertices for every angle, and    *)
(* with angle 0 the anchors are the local points shifted by the pivot and  *)
(* the tangents are the local tangents.                                    *)
C22_FlipperRotation ==
    WingReturned =>
        LET args == call.args
            lv == WingLocalV(args.side, args.a, args.b)
            li == WingLocalI(args.side, args.a, args.b)
            lo == WingLocalO(args.side, args.a, args.b)
        IN  /\ Len(call.path.v) = 4 /\ Len(call.path.i) = 4 /\ Len(call.path.o) = 4
            /\ \A n \in 1..4 :
                   /\ call.path.v[n] =
                          Shifted(Turned(lv[n], args.side, args.angle_deg), WingPivot(args))
                   /\ call.path.i[n] = Turned(li[n], args.side, args.angle_deg)
                   /\ call.path.o[n] = Turned(lo[n], args.side, args.angle_deg)
            /\ \A cx \in Centres, cy \in Centres :
                   LET moved == wing_path(cx, cy, args.side, args.a, args.b,
                                          args.angle_deg)
                   IN  moved.i = call.path.i /\ moved.o = call.path.o
            /\ args.angle_deg = 0 =>
                   \A n \in 1..4 :
                       /\ call.path.v[n] =
                              Shifted(<<lv[n][1] * 100, lv[n][2] * 100>>, WingPivot(args))
                       /\ call.path.i[n] = <<li[n][1] * 100, li[n][2] * 100>>
                       /\ call.path.o[n] = <<lo[n][1] * 100, lo[n][2] * 100>>

\* a left flipper of positive size turned by 30 degrees: its tangents are
\* no longer the local ones
C22_Witness ==
    /\ WingReturned
    /\ call.args.side = 0 - 1 /\ call.args.angle_deg = 30
    /\ call.args.a = 30 * Unit /\ call.args.b = 50 * Unit
    /\ call.path.i[1] # <<WingLocalI(0 - 1, call.args.a, call.args.b)[1][1] * 100,
                          WingLocalI(0 - 1, call.args.a, call.args.b)[1][2] * 100>>
    /\ call.path.i[1] = Turned(WingLocalI(0 - 1, call.args.a, call.args.b)[1], 0 - 1, 30)

\* the bezier-path parts both documents hold: group id and layer name
BezierParts ==
    {<<"body", "Body">>, <<"beak", "Beak">>, <<"left_wing", "Left Wing">>,
     <<"right_wing", "Right Wing">>, <<"scarf", "Scarf">>}
\* the numbers of a path of the animation per hundredth of a pixel
PerHundredthOf(nm) ==
    IF nm \in {"Left Wing", "Right Wing"} THEN (WingScale * Unit) \div 100
                                          ELSE (Unit * Unit) \div 100
Rounded(pt, per) == <<(pt[1] + per \div 2) \div per, (pt[2] + per \div 2) \div per>>
\* the segments of a closed curve: start anchor, two control points, end
\* anchor, in hundredths of a pixel
LottieCurve(nm) ==
    LET path == lottie_shape_path(nm)
        per == PerHundredthOf(nm)
    IN  [n \in 1..Len(path.v) |->
            <<Rounded(path.v[n], per),
              Rounded(Plus(path.v[n], path.o[n]), per),
              Rounded(Plus(path.v[Succ(n, Len(path.v))],
                           path.i[Succ(n, Len(path.v))]), per),
              Rounded(path.v[Succ(n, Len(path.v))], per)>>]
SvgCurve(id) ==
    LET path == svg_d(id)
    IN  [n \in 1..Len(path.v) |->
            <<path.v[n], path.c1[n], path.c2[n], path.v[Succ(n, Len(path.v))]>>]
BothHold(part) ==
    /\ pc.svg # "start" /\ LottieDone
    /\ \E g \in DOMAIN svg.groups : svg.groups[g].id = part[1]
    /\ \E j \in DOMAIN Doc : Doc[j].nm = part[2]

(* C23: for every bezier-path part that the vector and the animation      *)
(* documents both hold (body, beak, left and right wing, scarf) the two    *)
(* generators emit the same closed curve: the same number of segments,     *)
(* the same anchors in the same order and the same two control points for  *)
(* every segment.                                                          *)
C23_OneGeometricTruth ==
    \A part \in BezierParts :
        BothHold(part) => SvgCurve(part[1]) = LottieCurve(part[2])

\* both documents are built; the beak has three segments and the same
\* anchors in both, yet other control points; the body has four segments in
\* one and six in the other
C23_Witness ==
    /\ \A part \in BezierParts : BothHold(part)
    /\ Len(SvgCurve("beak")) = 3 /\ Len(LottieCurve("Beak")) = 3
    /\ \A n \in 1..3 : SvgCurve("beak")[n][1] = LottieCurve("Beak")[n][1]
    /\ SvgCurve("beak")[1][2] # LottieCurve("Beak")[1][2]
    /\ Len(SvgCurve("body")) = 4 /\ Len(LottieCurve("Body")) = 6
    /\ Len(SvgCurve("left_wing")) = 2 /\ Len(LottieCurve("Left Wing")) = 4
    /\ Len(SvgCurve("scarf")) = 5 /\ Len(LottieCurve("Scarf")) = 7

\* the eye layers of the built document and the side each is built for
EyeSide(nm) == IF nm = "Right Eye" THEN 1 ELSE 0 - 1
EyeLayers == {j \in DOMAIN Doc : Doc[j].nm \in {"Left Eye", "Right Eye"}}
EyeCentre(nm) == <<eye_geometry(EyeSide(nm)).ex, eye_geometry(EyeSide(nm)).eye_y>>
\* where a layer's scale (percent, about the layer's anchor point) puts a
\* point of the layer, in hundredths of a model unit
ScaledAbout(pt, anchor, scale) ==
    <<anchor[1] * 100 + (pt[1] - anchor[1]) * scale[1],
      anchor[2] * 100 + (pt[2] - anchor[2]) * scale[2]>>
EyeCentreAt(j, n) ==
    ScaledAbout(EyeCentre(Doc[j].nm), Doc[j].ks.a.k, Doc[j].ks.s.k[n].s)
\* the pupil's radii under the scale of a keyframe
EyeRadiiAt(j, n) ==
    <<eye_geometry(EyeSide(Doc[j].nm)).er * Doc[j].ks.s.k[n].s[1],
      eye_geometry(EyeSide(Doc[j].nm)).er * Doc[j].ks.s.k[n].s[2]>>

(* C24: the blink is part-local: each eye layer's anchor point is that     *)
(* eye's centre, so at every keyframe of the scale track the eye's centre  *)
(* is where it is with the eye open, and at every keyframe the left and    *)
(* the right eye differ in size.                                           *)
C24_BlinkPartLocal ==
    LottieDone =>
        /\ \A j \in EyeLayers :
              /\ Doc[j].ks.s.a = 1
              /\ <<Doc[j].ks.a.k[1], Doc[j].ks.a.k[2]>> = EyeCentre(Doc[j].nm)
              /\ \A n \in DOMAIN Doc[j].ks.s.k : EyeCentreAt(j, n) = EyeCentreAt(j, 1)
        /\ \A j, k \in EyeLayers :
              Doc[j].nm # Doc[k].nm =>
                  \A n \in DOMAIN Doc[j].ks.s.k : EyeRadiiAt(j, n) # EyeRadiiAt(k, n)

\* the document is built with both eyes; an eye's anchor point is the
\* artboard centre, and with the eye closed its centre is elsewhere than
\* with the eye open
C24_Witness ==
    /\ LottieDone
    /\ {Doc[j].nm : j \in EyeLayers} = {"Left Eye", "Right Eye"}
    /\ \A j \in EyeLayers :
          /\ <<Doc[j].ks.a.k[1], Doc[j].ks.a.k[2]>> = <<(W * Unit) \div 2, (H * Unit) \div 2>>
          /\ \E n \in DOMAIN Doc[j].ks.s.k :
                /\ Doc[j].ks.s.k[n].s[2] = blink_closed
                /\ EyeCentreAt(j, n) # EyeCentreAt(j, 1)
                /\ EyeCentreAt(j, n)[2] - EyeCentreAt(j, 1)[2] > 50 * Unit * 100

\* the scale track of an eye layer, and the keyframes where a blink closes
\* the eye: closed, after an open one
BlinkTrack(j) == Doc[j].ks.s.k
Closings(j) ==
    {n \in 2..Len(BlinkTrack(j)) :
        /\ BlinkTrack(j)[n].s[2] # 100
        /\ BlinkTrack(j)[n - 1].s[2] = 100}
\* a blink closing at keyframe n: open, closed, closed, open, each later
\* than the one before
BlinkShape(j, n) ==
    /\ n + 2 <= Len(BlinkTrack(j))
    /\ BlinkTrack(j)[n - 1].s[2] = 100
    /\ BlinkTrack(j)[n].s[2] = blink_closed
    /\ BlinkTrack(j)[n + 1].s[2] = blink_closed
    /\ BlinkTrack(j)[n + 2].s[2] = 100
    /\ BlinkTrack(j)[n - 1].t < BlinkTrack(j)[n].t
    /\ BlinkTrack(j)[n].t < BlinkTrack(j)[n + 1].t
    /\ BlinkTrack(j)[n + 1].t < BlinkTrack(j)[n + 2].t

OpaqueBackground(e) ==
    e.by = "background" /\ e.source.kind = "solid" /\ e.source.alphas = {Opaque}
Glow(e) == e.by = "background" /\ e.source.name = "glow"
ShadowOrPart(e) == e.by \in {"shadow", "part"}
\* the image being drawn, while one is being drawn
IconDrawing ==
    pc.icon \in {"background", "penguin", "shadow", "parts", "save", "v1_glow",
                 "v1_penguin"}
\* background strictly before glow, both before every shadow and part paint,
\* and neither after one
BackgroundFirst(log) ==
    /\ \A n \in DOMAIN log :
          ShadowOrPart(log[n]) =>
              \E b, g \in 1..(n - 1) :
                  b < g /\ OpaqueBackground(log[b]) /\ Glow(log[g])
    /\ \A n \in DOMAIN log :
          (OpaqueBackground(log[n]) \/ Glow(log[n])) =>
              \A m \in 1..(n - 1) : ~ShadowOrPart(log[m])
    /\ \A b, g \in DOMAIN log :
          (OpaqueBackground(log[b]) /\ Glow(log[g])) => b < g
NoBackground(log) ==
    \A n \in DOMAIN log : ~OpaqueBackground(log[n]) /\ ~Glow(log[n])

Outlines(log) ==
    {<<log[n].part, log[n].geom>> : n \in {m \in DOMAIN log : log[m].by = "part"}}
IconsSaved == \A k \in DOMAIN Variants : icons[Variants[k]] # <<>>

(* C27: the tinted raster variant paints the same character as the light   *)
(* and dark variants: every part outline painted for the light or the dark *)
(* variant is painted for the tinted variant too, with the same geometry.  *)
C27_FlatPaintsSameCharacter ==
    IconsSaved =>
        \A v \in {"light", "dark"} : Outlines(icons[v]) \subseteq Outlines(icons["tinted"])

\* the three variants are saved; the tinted one has the body and the head
\* of the light one, and lacks its belly, face patch, eyes and beak
C27_Witness ==
    /\ IconsSaved
    /\ \E o \in Outlines(icons["light"]) \cap Outlines(icons["tinted"]) : o[1] = "body"
    /\ \E o \in Outlines(icons["light"]) \cap Outlines(icons["tinted"]) : o[1] = "head"
    /\ \A part \in {"belly", "face_patch", "left_eye", "right_eye", "beak"} :
          /\ \E o \in Outlines(icons["light"]) : o[1] = part
          /\ \A o \in Outlines(icons["tinted"]) : o[1] # part

\* a track's keyframe times: strictly increasing, from frame 0 or later, the
\* last one, and no other, at TOTAL_FRAMES
TimesOk(kfs) ==
    /\ Len(kfs) >= 1
    /\ kfs[1].t >= 0
    /\ \A n \in 1..(Len(kfs) - 1) : kfs[n].t < kfs[n + 1].t
    /\ kfs[Len(kfs)].t = TOTAL_FRAMES
    /\ Cardinality({n \in DOMAIN kfs : kfs[n].t = TOTAL_FRAMES}) = 1

(* C28: in the document generate_lottie() returns, every animated track    *)
(* has strictly increasing keyframe times that start at or after frame 0   *)
(* and end with exactly one keyframe at TOTAL_FRAMES, and every layer's in *)
(* and out points are the document's, 0 and TOTAL_FRAMES.                  *)
C28_TracksWithinPlayback ==
    LottieDone =>
        /\ lottie.ip = 0 /\ lottie.op = TOTAL_FRAMES
        /\ \A j \in DOMAIN Doc :
              /\ Doc[j].ip = lottie.ip /\ Doc[j].op = lottie.op
              /\ \A prop \in Tracks(Doc[j]) : TimesOk(Doc[j].ks[prop].k)

\* the document is built: twelve layers, each with an animated position,
\* the eyes with an animated scale too, the scarf's track starting at frame 8
C28_Witness ==
    /\ LottieDone
    /\ Len(Doc) = 12
    /\ \A j \in DOMAIN Doc : "p" \in Tracks(Doc[j])
    /\ \E j \in DOMAIN Doc : Doc[j].nm = "Left Eye" /\ "s" \in Tracks(Doc[j])
    /\ \E j \in DOMAIN Doc : Doc[j].nm = "Scarf" /\ Doc[j].ks.p.k[1].t = phase_offset

\* the steps of the sway injection (the loop of lines 762-786), and what a
\* layer holds besides its position
Injecting == pc.lottie \in {"sway", "sway_loop"}
Rest(layer) ==
    [o |-> layer.ks.o, r |-> layer.ks.r, a |-> layer.ks.a, s |-> layer.ks.s,
     shapes |-> layer.shapes, nm |-> layer.nm, ind |-> layer.ind]
InjectionStep ==
    Injecting =>
        /\ DOMAIN built' = DOMAIN built
        /\ \A nm \in DOMAIN built :
              /\ Rest(built'[nm]) = Rest(built[nm])
              /\ built'[nm].ks.p # built[nm].ks.p =>
                    /\ is_static(built[nm].ks.p)
                    /\ nm = layers[i]
                    /\ \A other \in DOMAIN built \ {nm} : built'[other] = built[other]
        /\ built'["Scarf"].ks.p = built["Scarf"].ks.p
Injected ==
    LottieDone =>
        /\ Len(Doc) = 12
        /\ \A j \in DOMAIN Doc : Doc[j].ks.p.a = 1 /\ Doc[j].ind = j - 1
        /\ \A j \in DOMAIN Doc :
              Doc[j].nm = "Scarf" => Doc[j].ks.p = build_scarf_counter_sway.p

PartFunctions ==
    {DrawOrder[k] : k \in DOMAIN DrawOrder}
    \cup {draw_body_shape(TRUE), draw_head(TRUE), draw_wings(TRUE), shadow_func,
          draw_tinted_silhouette}
    \cup {shadow_pass(k) : k \in 0..(ShadowPasses - 1)}
\* run from the context as it is now, the function ends with the save stack
\* and the transformation it started with, and never restores too often
Balanced(ops) ==
    LET after == ApplyOps(<<ctx, <<>> >>, ops)[1]
    IN  /\ after.stack = ctx.stack
        /\ after.ctm = ctx.ctm
        /\ ~after.err
\* the parts drawn without a transformation of their own
Untransformed == {"left_foot", "right_foot", "body", "belly", "scarf"}

(* C30: in the cairo generator every part-drawing function, the shadow     *)
(* forms of draw_body_shape, draw_head and draw_wings and every pass of    *)
(* draw_drop_shadow included, leaves the context's save stack and          *)
(* transformation as it found them; so between two drawing functions the   *)
(* stack is empty, and the parts painted after the shadow, the wings or    *)
(* the head carry no tilt, wing rotation or shadow offset.                 *)
C30_GraphicsStateBalanced ==
    script = "v2" =>
        /\ ~ctx.err
        /\ \A ops \in PartFunctions : Balanced(ops)
        /\ pc.icon \in {"parts", "save"} => ctx.stack = <<>> /\ ctx.ctm = <<>>
        /\ \A n \in DOMAIN surface :
              (surface[n].by = "part" /\ surface[n].part \in Untransformed) =>
                  surface[n].ctm = <<>> /\ surface[n].depth = 0

\* after the shadow passes, the wings and the tilted head, the scarf is
\* painted: the head's shadow was painted three saves deep under offset and
\* tilt, the scarf is painted with the stack empty
C30_Witness ==
    /\ script = "v2" /\ pc.icon = "save"
    /\ \E m, n \in DOMAIN surface :
          /\ m < n
          /\ surface[m].by = "shadow" /\ surface[m].part = "head"
          /\ surface[m].depth = 3 /\ Len(surface[m].ctm) = 4
          /\ surface[n].by = "part" /\ surface[n].part = "belly"
          /\ surface[n].depth = 0
    /\ \E m, n \in DOMAIN surface :
          /\ m < n
          /\ surface[m].by = "part" /\ surface[m].part = "right_wing"
          /\ surface[m].depth = 1
          /\ surface[n].by = "part" /\ surface[n].part = "scarf"
          /\ surface[n].ctm = <<>>

============================================================================
